---- MODULE Spec2Model ----
(***************************************************************************)
(* Model of the extraction orchestration pipeline of the Shopify insights  *)
(* fetcher: URLValidator.validate_url, NetworkHandler.get, the retry       *)
(* handler, ShopifyInsightsOrchestrator.extract_insights with its fan-out, *)
(* merge, enrichment, persistence and finalize steps, and the per-facet    *)
(* AI validation of AIValidatorService.                                    *)
(*                                                                         *)
(* Strings that the code inspects character by character (URLs) are        *)
(* sequences of one-character strings.  Confidence scores are integers in  *)
(* tenths (0.7 is 7, 0.5 is 5).                                            *)
(***************************************************************************)
EXTENDS Integers, Sequences, FiniteSets, TLC

VARIABLES
    url,                \* the argument of extract_insights
    about_link,         \* the homepage has an "about" link that resolves to the homepage itself
    cfg,                \* which optional collaborators the orchestrator holds
    pc,                 \* position of extract_insights
    insights,           \* the BrandInsights record of the run
    html_result,        \* result of _fetch_homepage_content
    net,                \* NetworkHandler: calls of get on the store URL so far; loop index,
                        \* last response and last wait of the call for the homepage
    tstate,             \* per fan-out subtask: idle / running / done
    attempt,            \* per subtask: loop index of its running retry handler
    invoked,            \* per subtask: the wrapped extractor was invoked in this run
    lastRaised,         \* per subtask: the subtask ended because of a raised exception
    tresult,            \* per subtask: the OperationResult its coroutine returned
    extraction_results, \* the map returned by _run_parallel_extractions
    metrics,            \* the ExtractionMetrics of the orchestrator
    result,             \* the OperationResult returned by extract_insights
    ai,                 \* per-facet AI validation: inputs and output of validate_<facet>
    scraper,            \* ShopifyScraperService.extract_all_insights: position and record
    mlog,               \* the record_operation calls made on a metrics object: how many, how many with success
    cdetect,            \* CurrencyService.detect_and_convert_product_prices: inputs, position, yields of the steps
    faqrun,             \* one _extract_faqs call of the scraper service
    norm,               \* one URL put through a normalizer twice
    db,                 \* the PostgreSQL tables and the save_brand_insights call in progress
    retry,              \* one call of a retry handler on its own
    limiter,            \* one NetworkHandler with its RateLimiter and the clock
    breaker             \* one CircuitBreaker and the clock

vars == <<url, about_link, cfg, pc, insights, html_result, net, tstate, attempt, invoked,
          lastRaised, tresult, extraction_results, metrics, result, ai, scraper, mlog, cdetect, faqrun, norm, db, retry, limiter, breaker>>

\* the state of the components examined outside a run of extract_insights
unitVars == <<ai, scraper, mlog, cdetect, faqrun, norm, db, retry, limiter, breaker>>

\* the value of a component's variable while the component is not examined
Off == [phase |-> "off"]

orchVars == <<url, about_link, cfg, pc, insights, html_result, net, tstate, attempt, invoked,
              lastRaised, tresult, extraction_results, metrics, result>>

----------------------------------------------------------------------------
(* Strings as character sequences                                          *)

Str_https == <<"h","t","t","p","s",":","/","/">>
Str_http  == <<"h","t","t","p",":","/","/">>

StartsWith(s, p) == Len(s) >= Len(p) /\ SubSeq(s, 1, Len(p)) = p

IsSpace(c) == c = " "

RECURSIVE LStrip(_)
LStrip(s) == IF s # <<>> /\ IsSpace(Head(s)) THEN LStrip(Tail(s)) ELSE s

RECURSIVE RStrip(_)
RStrip(s) == IF s # <<>> /\ IsSpace(s[Len(s)]) THEN RStrip(SubSeq(s, 1, Len(s) - 1)) ELSE s

\* str.strip()
Strip(s) == RStrip(LStrip(s))

\* index of the first element of s that is in the set cs, 0 when there is none
RECURSIVE FindFirst(_, _, _)
FindFirst(s, cs, i) ==
    IF i > Len(s) THEN 0
    ELSE IF s[i] \in cs THEN i
    ELSE FindFirst(s, cs, i + 1)

Letters == {"a","c","f","h","o","p","s","t","H","T","P"}
SchemeChars == Letters \cup {"+", "-", "."}

LowerChar(c) == CASE c = "H" -> "h" [] c = "T" -> "t" [] c = "P" -> "p" [] OTHER -> c
Lower(s) == [i \in 1..Len(s) |-> LowerChar(s[i])]

\* urllib.parse.urlparse, reduced to the two components validate_url reads.
\* scheme: the text before the first ":" when it starts with a letter and has
\* only scheme characters, lower-cased; netloc: after a leading "//", up to
\* the first of "/", "?", "#".  A "[" without "]" (or the reverse) in the netloc
\* raises ValueError.
UrlParse(u) ==
    LET i      == FindFirst(u, {":"}, 1)
        pre    == IF i > 0 THEN SubSeq(u, 1, i - 1) ELSE <<>>
        hasSch == /\ i > 1
                  /\ pre[1] \in Letters
                  /\ \A k \in 1..Len(pre) : pre[k] \in SchemeChars
        scheme == IF hasSch THEN Lower(pre) ELSE <<>>
        rest   == IF hasSch THEN SubSeq(u, i + 1, Len(u)) ELSE u
        hasNet == StartsWith(rest, <<"/","/">>)
        after  == IF hasNet THEN SubSeq(rest, 3, Len(rest)) ELSE <<>>
        d      == FindFirst(after, {"/", "?", "#"}, 1)
        netloc == IF d > 0 THEN SubSeq(after, 1, d - 1) ELSE after
        lb     == \E k \in 1..Len(netloc) : netloc[k] = "["
        rb     == \E k \in 1..Len(netloc) : netloc[k] = "]"
    IN  [scheme |-> scheme, netloc |-> netloc, raises |-> (lb # rb)]

----------------------------------------------------------------------------
(* OperationResult and payloads                                            *)

Statuses == {"success", "partial_success", "failure", "timeout",
             "invalid_input", "rate_limited"}

\* A payload (OperationResult.data).  kind "none" is None; "list" a list of
\* products; "ctx" a BrandContext; "dict" a mapping with the keys currency
\* and currency_symbol ("" is an absent key); "text" a string; "object" a
\* value of another type than the consumer expects (non-empty, without the
\* attributes of the expected type).
Payload(kind, items, text, currency, symbol) ==
    [kind |-> kind, items |-> items, text |-> text,
     currency |-> currency, symbol |-> symbol]

NoneData        == Payload("none", <<>>, <<>>, "", "")
ListData(s)     == Payload("list", s, <<>>, "", "")
CtxData(name)   == Payload("ctx", <<>>, name, "", "")
DictData(c, s)  == Payload("dict", <<>>, <<>>, c, s)
TextData(t)     == Payload("text", <<>>, t, "", "")
ObjectData      == Payload("object", <<>>, <<>>, "", "")

\* Python truthiness of a payload
Truthy(d) ==
    CASE d.kind = "none"   -> FALSE
      [] d.kind = "list"   -> d.items # <<>>
      [] d.kind = "dict"   -> d.currency # "" \/ d.symbol # ""
      [] d.kind = "text"   -> d.text # <<>>
      [] OTHER             -> TRUE

OperationResult(status, data, error_message, warnings) ==
    [status |-> status, data |-> data, error_message |-> error_message,
     warnings |-> warnings]

\* no result yet / name absent from a result map
NoResult == OperationResult("absent", NoneData, "", <<>>)

is_success(r) == r.status = "success"
is_partial_success(r) == r.status = "partial_success"

----------------------------------------------------------------------------
(* URLValidator.validate_url                                               *)

AllowedSchemes == {<<"h","t","t","p">>, <<"h","t","t","p","s">>}

validate_url(u) ==
    IF u = <<>>
    THEN OperationResult("invalid_input", NoneData, "URL cannot be empty or None", <<>>)
    ELSE LET s == Strip(u)
             n == IF StartsWith(s, Str_http) \/ StartsWith(s, Str_https)
                  THEN s ELSE Str_https \o s
             p == UrlParse(n)
         IN  IF p.raises
             THEN OperationResult("failure", NoneData, "URL validation failed", <<>>)
             ELSE IF p.scheme \notin AllowedSchemes
             THEN OperationResult("invalid_input", NoneData, "Invalid URL scheme", <<>>)
             ELSE IF p.netloc = <<>>
             THEN OperationResult("invalid_input", NoneData, "Invalid URL: no domain found", <<>>)
             ELSE OperationResult("success", TextData(n), "", <<>>)

----------------------------------------------------------------------------
(* Configuration and the records of one run                                *)

\* retry budget of the orchestrator's retry handler and of NetworkHandler.get
\* (config value 'max_retries', any positive integer)
max_retries == 2

Tasks == {"products", "hero_products", "brand_context", "currency"}

OpNames == {"product_extraction", "hero_product_extraction",
            "brand_context_extraction", "currency_detection", "ai_validation",
            "competitor_analysis", "database_save", "total_extraction"}

OpOf(t) ==
    CASE t = "products"      -> "product_extraction"
      [] t = "hero_products" -> "hero_product_extraction"
      [] t = "brand_context" -> "brand_context_extraction"
      [] t = "currency"      -> "currency_detection"

\* The optional attributes of the orchestrator.  The two extractors are set
\* together by _initialize_internal; the services are created by it too, each
\* one possibly None.
Configs ==
    { c \in [extractors : BOOLEAN, currency_detector : BOOLEAN,
             ai_validator : BOOLEAN, competitor_analyzer : BOOLEAN,
             database_service : BOOLEAN] :
        ~c.extractors => ~(c.currency_detector \/ c.ai_validator
                           \/ c.competitor_analyzer \/ c.database_service) }

\* AIValidationResult (confidence in tenths)
AIValidationResult(validated, confidence_score) ==
    [validated |-> validated, confidence_score |-> confidence_score]

AIValidationDefault == AIValidationResult(FALSE, 0)

\* BrandInsights as constructed by extract_insights: every facet at its default
BrandInsights(website_url) ==
    [website_url          |-> website_url,
     brand_context        |-> CtxData(<<>>),
     product_catalog      |-> ListData(<<>>),
     hero_products        |-> ListData(<<>>),
     total_products_found |-> 0,
     extraction_success   |-> TRUE,
     errors               |-> <<>>,
     competitor_analysis  |-> NoneData,
     ai_validation        |-> AIValidationDefault,
     detected_currency    |-> "",
     currency_symbol      |-> ""]

\* ExtractionMetrics.__init__
ExtractionMetrics ==
    [operations |-> [o \in OpNames |-> "absent"], errors |-> <<>>, warnings |-> <<>>]

\* ExtractionMetrics.record_operation: the entry of the name is (over)written
record_operation(m, operation, success) ==
    [m EXCEPT !.operations[operation] = IF success THEN "true" ELSE "false"]

add_error(m, operation) == [m EXCEPT !.errors = Append(@, operation)]

\* a warning list that keeps the latest warning only
add_warning_latestOnly(m, operation) == [m EXCEPT !.warnings = <<operation>>]

add_warning(m, operation) == [m EXCEPT !.warnings = Append(@, operation)]

----------------------------------------------------------------------------
(* The inputs of a run                                                     *)

UrlInputs ==
    { <<>>,                                       \* ""
      <<" ">>,                                    \* " "
      <<"h","t","t","p","s",":","/","/","a">>,    \* "https://a"
      <<"f","t","p",":","/","/","a">>,            \* "ftp://a"
      <<"h","t","t","p","s",":","/","/">>,        \* "https://"
      <<"/","p">>,                                \* "/p"
      <<"[">> }                                   \* "["

Init ==
    /\ url \in UrlInputs
    /\ about_link = FALSE
    /\ cfg \in Configs
    /\ pc = "start"
    /\ insights = BrandInsights(<<>>)
    /\ html_result = NoResult
    /\ net = [calls |-> 0, attempt |-> 0, last |-> "none", wait |-> 0]
    /\ tstate = [t \in Tasks |-> "idle"]
    /\ attempt = [t \in Tasks |-> 0]
    /\ invoked = [t \in Tasks |-> FALSE]
    /\ lastRaised = [t \in Tasks |-> FALSE]
    /\ tresult = [t \in Tasks |-> NoResult]
    /\ extraction_results = [t \in Tasks |-> NoResult]
    /\ metrics = ExtractionMetrics
    /\ result = NoResult
    /\ ai = Off
    /\ breaker = Off
    /\ limiter = Off
    /\ retry = Off
    /\ db = Off
    /\ norm = Off
    /\ faqrun = Off
    /\ cdetect = Off
    /\ mlog = Off
    /\ scraper = Off

----------------------------------------------------------------------------
(* extract_insights: validation and homepage fetch                         *)

\* the except branch of extract_insights (orchestrator.py 208-220)
TopLevelExcept ==
    /\ metrics' = add_error(record_operation(metrics, "total_extraction", FALSE),
                            "total_extraction")
    /\ result' = OperationResult("failure", NoneData, "Extraction failed", <<>>)
    /\ pc' = "done"

\* orchestrator.py 133-154
ValidateUrl ==
    /\ pc = "start"
    /\ LET url_validation == validate_url(url) IN
        IF ~is_success(url_validation)
        THEN /\ result' = OperationResult("invalid_input", NoneData, "Invalid URL", <<>>)
             /\ pc' = "done"
             /\ UNCHANGED insights
        ELSE /\ insights' = BrandInsights(url_validation.data.text)
             /\ pc' = "fetch"
             /\ UNCHANGED result
    /\ UNCHANGED <<url, about_link, cfg, html_result, net, tstate, attempt, invoked, lastRaised,
                   tresult, extraction_results, metrics, unitVars>>

\* a fail-fast test that looks for the Failure status only
HomepageFetchFailed_failureOnly(r) == r.status = "failure"

\* orchestrator.py 158: the test that makes the run fail fast
HomepageFetchFailed(r) == ~is_success(r)

\* _fetch_homepage_content followed by the test of extract_insights on its
\* result (orchestrator.py 157-164, 222-245)
AfterHomepageGet(r) ==
    /\ html_result' = r
    /\ IF HomepageFetchFailed(r)
       THEN /\ result' = OperationResult("failure", NoneData, "Failed to fetch homepage", <<>>)
            /\ pc' = "done"
       ELSE /\ pc' = "fanout"
            /\ UNCHANGED result

\* NetworkHandler.get, entry: the rate limiter admits or rejects the call
\* (base.py 166-173); the limiter is shared by every call of the process
HomepageGetStart ==
    /\ pc = "fetch"
    /\ net' = [net EXCEPT !.calls = @ + 1, !.attempt = 0, !.last = "none", !.wait = 0]
    /\ \E can_proceed \in BOOLEAN :
        IF can_proceed
        THEN /\ pc' = "get"
             /\ UNCHANGED <<html_result, result>>
        ELSE AfterHomepageGet(OperationResult("rate_limited", NoneData,
                                              "Rate limit exceeded", <<>>))
    /\ UNCHANGED <<url, about_link, cfg, insights, tstate, attempt, invoked, lastRaised, tresult,
                   extraction_results, metrics, unitVars>>

\* what one HTTP request of the session can end in
Responses == {"200", "200_empty_body", "404", "403", "429", "5xx", "4xx_other",
              "timeout", "connection_error", "other_exception"}

\* a retry policy that also re-issues the request after a 429
Retryable_with429 == {"5xx", "timeout", "connection_error", "429"}

\* the responses after which the loop sleeps and goes on (base.py 201-206,
\* 224-229, 236-241)
Retryable == {"5xx", "timeout", "connection_error"}

\* the sleep before the next request, in units of backoff_factor
\* (base.py 203, 226, 238)
BackoffWait(a) == 2 ^ a

\* the result NetworkHandler.get returns when the request ends the call
\* (base.py 183-251)
GetResult(resp) ==
    CASE resp = "200"              -> OperationResult("success", TextData(<<"x">>), "", <<>>)
      [] resp = "200_empty_body"   -> OperationResult("success", TextData(<<>>), "", <<>>)
      [] resp = "404"              -> OperationResult("invalid_input", NoneData, "Website not found (404)", <<>>)
      [] resp = "403"              -> OperationResult("failure", NoneData, "Access forbidden (403)", <<>>)
      [] resp = "429"              -> OperationResult("rate_limited", NoneData, "Too many requests (429)", <<>>)
      [] resp = "5xx"              -> OperationResult("failure", NoneData, "Server error", <<>>)
      [] resp = "timeout"          -> OperationResult("timeout", NoneData, "Request timed out after multiple retries", <<>>)
      [] resp = "connection_error" -> OperationResult("failure", NoneData, "Connection error", <<>>)
      [] OTHER                     -> OperationResult("failure", NoneData, "Unexpected error", <<>>)

\* one iteration of the loop of NetworkHandler.get (base.py 175-251)
HomepageGetAttempt(resp) ==
    /\ pc = "get"
    /\ IF resp \in Retryable /\ net.attempt < max_retries
       THEN /\ net' = [net EXCEPT !.attempt = @ + 1, !.last = resp,
                                   !.wait = BackoffWait(net.attempt)]
            /\ UNCHANGED <<html_result, result, pc>>
       ELSE /\ net' = [net EXCEPT !.attempt = 0, !.last = resp, !.wait = 0]
            /\ AfterHomepageGet(GetResult(resp))
    /\ UNCHANGED <<url, about_link, cfg, insights, tstate, attempt, invoked, lastRaised, tresult,
                   extraction_results, metrics, unitVars>>

----------------------------------------------------------------------------
(* Fan-out: _run_parallel_extractions and the four retry wrappers          *)

\* the subtasks _run_parallel_extractions creates (orchestrator.py 249-262)
TaskNames(c) ==
    (IF c.extractors THEN {"products", "hero_products", "brand_context"} ELSE {})
    \cup (IF c.currency_detector THEN {"currency"} ELSE {})

\* the statuses for which the retry handler goes on
NonSuccess == Statuses \ {"success", "partial_success"}

Fail(status) == OperationResult(status, NoneData, "extractor error", <<>>)

\* What one invocation of the wrapped extractor can end in: an
\* OperationResult, or a raised exception ("raise").  html is the homepage
\* text handed to the extractor.
\*  - extract_products (extractors.py 198-280): Success with the list (empty
\*    when the store has none), PartialSuccess with products and warnings,
\*    Failure;
\*  - extract_hero_products (282-323): InvalidInput without HTML, else Success
\*    with a non-empty list, PartialSuccess with an empty one, Failure;
\*  - extract_brand_context (434-475): InvalidInput without HTML, else Success
\*    with a BrandContext, Failure;
\*  - detect_currency (interfaces.py 67-73): Success with a mapping, Failure.
\* The interfaces type data as Any and do not forbid raising, so each
\* extractor may also time out, raise, or succeed with a payload of another
\* type.
ExtractorOutcomes(t, html) ==
    LET failures == { [raise |-> FALSE, res |-> Fail(st)] : st \in NonSuccess }
        raising  == { [raise |-> TRUE, res |-> NoResult] }
        ok(d, w) == [raise |-> FALSE, res |-> OperationResult("success", d, "", w)]
        part(d, w) == [raise |-> FALSE,
                       res |-> OperationResult("partial_success", d, "", w)]
        noHtml   == { [raise |-> FALSE, res |-> Fail("invalid_input")] }
    IN  CASE t = "products" ->
               { ok(ListData(<<"p1">>), <<>>), ok(ListData(<<>>), <<>>),
                 part(ListData(<<"p1">>), <<"page 2 failed">>), ok(ObjectData, <<>>) }
               \cup failures \cup raising
          [] t = "hero_products" ->
               IF html = <<>> THEN noHtml
               ELSE { ok(ListData(<<"h1">>), <<>>), part(ListData(<<>>), <<>>),
                      ok(ObjectData, <<>>) } \cup failures \cup raising
          [] t = "brand_context" ->
               IF html = <<>> THEN noHtml
               ELSE { ok(CtxData(<<"A">>), <<>>), ok(CtxData(<<>>), <<>>),
                      ok(ObjectData, <<>>) } \cup failures \cup raising
          [] t = "currency" ->
               { ok(DictData("INR", "Rs"), <<>>), ok(ObjectData, <<>>) }
               \cup failures \cup raising

\* orchestrator.py 249-271: the coroutines are created and scheduled
StartFanout ==
    /\ pc = "fanout"
    /\ tstate' = [t \in Tasks |-> IF t \in TaskNames(cfg) THEN "running" ELSE "idle"]
    /\ pc' = "gather"
    /\ UNCHANGED <<url, about_link, cfg, insights, html_result, net, attempt, invoked, lastRaised,
                   tresult, extraction_results, metrics, result, unitVars>>

\* a retry handler that hands back the last result of the operation as it is
RetryIteration_keepsLastResult(a, o) ==
    IF o.raise
    THEN IF a = max_retries
         THEN OperationResult("failure", NoneData, "Operation failed after retries", <<>>)
         ELSE NoResult
    ELSE IF is_success(o.res) \/ is_partial_success(o.res)
         THEN o.res
         ELSE IF a < max_retries
              THEN NoResult
              ELSE o.res

\* One iteration of the loop of retry_handler (factory.py 328-353) on outcome
\* o of the wrapped operation at loop index a: the result it returns, or
\* NoResult when it sleeps and goes on to the next iteration.
RetryIteration(a, o) ==
    IF o.raise
    THEN IF a = max_retries
         THEN OperationResult("failure", NoneData, "Operation failed after retries", <<>>)
         ELSE NoResult
    ELSE IF is_success(o.res) \/ is_partial_success(o.res)
         THEN o.res
         ELSE IF a < max_retries
              THEN NoResult
              ELSE OperationResult("failure", NoneData, "Max retries exceeded", <<>>)

\* Whether an invocation of the extractor called NetworkHandler.get on the
\* homepage again.  _extract_about_us_content (extractors.py 539-558) requests
\* urljoin(base_url, href) for every link whose href or text holds "about",
\* "story" or "who-we-are"; for an href such as "/" or "#about" that is the
\* homepage.  extract_brand_context reaches it in every invocation that
\* returns Success (456), in none that ends at the input checks (436-443),
\* and possibly in one that ends in its except branch or is cut short.
AboutRequests(t, o) ==
    IF t # "brand_context" \/ ~about_link \/ html_result.data.text = <<>>
    THEN {FALSE}
    ELSE IF ~o.raise /\ is_success(o.res) THEN {TRUE}
    ELSE IF ~o.raise /\ o.res.status = "invalid_input" THEN {FALSE}
    ELSE BOOLEAN

\* A step of subtask t inside its try block: one iteration of the retry
\* handler, and when the handler returns, the rest of the wrapper
\* (orchestrator.py 295-302 and the three like it)
TaskAttempt(t, o) ==
    /\ pc = "gather"
    /\ tstate[t] = "running"
    /\ invoked' = [invoked EXCEPT ![t] = TRUE]
    /\ \E requested \in AboutRequests(t, o) :
          net' = [net EXCEPT !.calls = IF requested THEN @ + 1 ELSE @]
    /\ LET r == RetryIteration(attempt[t], o) IN
        IF r = NoResult
        THEN /\ attempt' = [attempt EXCEPT ![t] = @ + 1]
             /\ UNCHANGED <<tstate, tresult, metrics, lastRaised>>
        ELSE /\ tresult' = [tresult EXCEPT ![t] = r]
             /\ tstate' = [tstate EXCEPT ![t] = "done"]
             /\ lastRaised' = [lastRaised EXCEPT ![t] = o.raise]
             /\ metrics' = record_operation(metrics, OpOf(t), is_success(r))
             /\ attempt' = [attempt EXCEPT ![t] = 0]
    /\ UNCHANGED <<url, about_link, cfg, pc, insights, html_result, extraction_results,
                   result, unitVars>>

\* the result a wrapper returns from its except branch (orchestrator.py 303-310)
WrapperExceptResult(t) ==
    OperationResult("failure", NoneData, "extraction failed with exception", <<>>)

\* An exception raised in the wrapper outside the retry handler (the lookup
\* of the extractor's method, before the first invocation): the except
\* branch of the wrapper
TaskWrapperRaise(t) ==
    /\ pc = "gather"
    /\ tstate[t] = "running"
    /\ attempt[t] = 0
    /\ ~invoked[t]
    /\ tresult' = [tresult EXCEPT ![t] = WrapperExceptResult(t)]
    /\ tstate' = [tstate EXCEPT ![t] = "done"]
    /\ lastRaised' = [lastRaised EXCEPT ![t] = TRUE]
    /\ metrics' = add_error(record_operation(metrics, OpOf(t), FALSE), OpOf(t))
    /\ UNCHANGED <<url, about_link, cfg, pc, insights, html_result, net, attempt, invoked,
                   extraction_results, result, unitVars>>

\* a join in which an exception of one subtask aborts the gathering, so that
\* every name gets the Failure of orchestrator.py 287-293
JoinResults_abortOnException(names, res) ==
    [t \in Tasks |->
        IF t \notin names THEN NoResult
        ELSE IF \E u \in names : lastRaised[u]
             THEN OperationResult("failure", NoneData, "Parallel execution failed", <<>>)
             ELSE res[t]]

\* The map built from the gathered results (orchestrator.py 273-285):
\* results[i] goes to the i-th task name
JoinResults(names, res) ==
    [t \in Tasks |-> IF t \in names THEN res[t] ELSE NoResult]

\* asyncio.gather returns when every subtask has returned
Join ==
    /\ pc = "gather"
    /\ \A t \in TaskNames(cfg) : tstate[t] = "done"
    /\ extraction_results' = JoinResults(TaskNames(cfg), tresult)
    /\ pc' = "process"
    /\ UNCHANGED <<url, about_link, cfg, insights, html_result, net, tstate, attempt, invoked,
                   lastRaised, tresult, metrics, result, unitVars>>

----------------------------------------------------------------------------
(* Merge: _process_extraction_results                                      *)

\* the branch taken for one entry of the map: "write", "warn" or "skip"
\* (orchestrator.py 370-374 and the three like it)
MergeBranch(r) ==
    IF is_success(r) /\ Truthy(r.data) THEN "write"
    ELSE IF r.warnings # <<>> THEN "warn"
    ELSE "skip"

\* len(x) and x.get(..) of a payload raise on a value without them
HasLen(d) == d.kind \in {"list", "dict", "text"}
HasGet(d) == d.kind = "dict"
HasBrandName(d) == d.kind = "ctx"

\* _process_extraction_results (orchestrator.py 363-404): the record after
\* the merge, or raises = TRUE when a statement of it raised
ProcessExtractionResults(res, ins) ==
    LET present(t) == res[t].status # "absent"
        br(t)      == IF present(t) THEN MergeBranch(res[t]) ELSE "skip"
        warn(t)    == IF br(t) = "warn" THEN res[t].warnings ELSE <<>>
        i1 == IF br("products") = "write"
              THEN [ins EXCEPT !.product_catalog = res["products"].data,
                               !.total_products_found =
                                   IF res["products"].data.kind = "list"
                                   THEN Len(res["products"].data.items) ELSE 0]
              ELSE ins
        i2 == IF br("hero_products") = "write"
              THEN [i1 EXCEPT !.hero_products = res["hero_products"].data] ELSE i1
        i3 == IF br("brand_context") = "write"
              THEN [i2 EXCEPT !.brand_context = res["brand_context"].data] ELSE i2
        i4 == IF br("currency") = "write"
              THEN [i3 EXCEPT !.detected_currency = res["currency"].data.currency,
                              !.currency_symbol = res["currency"].data.symbol]
              ELSE i3
        errors == warn("products") \o warn("hero_products")
                  \o warn("brand_context") \o warn("currency")
        raises == \/ br("products") = "write" /\ ~HasLen(res["products"].data)
                  \/ br("currency") = "write" /\ ~HasGet(res["currency"].data)
    IN  [raises   |-> raises,
         insights |-> IF errors # <<>> THEN [i4 EXCEPT !.errors = errors] ELSE i4]

ProcessResults ==
    /\ pc = "process"
    /\ LET p == ProcessExtractionResults(extraction_results, insights) IN
        IF p.raises
        THEN /\ TopLevelExcept
             /\ UNCHANGED insights
        ELSE /\ insights' = p.insights
             /\ pc' = "ai"
             /\ UNCHANGED <<metrics, result>>
    /\ UNCHANGED <<url, about_link, cfg, html_result, net, tstate, attempt, invoked, lastRaised,
                   tresult, extraction_results, unitVars>>

----------------------------------------------------------------------------
(* Enrichment, competitor analysis, persistence                            *)

\* What a call of an optional collaborator can end in: an OperationResult, or
\* an exception (which includes a return value that is not an
\* OperationResult: reading .is_success of it raises inside the try block)
CollaboratorOutcomes(data) ==
    { [raise |-> FALSE, res |-> OperationResult("success", data, "", <<>>)],
      [raise |-> FALSE, res |-> Fail("failure")],
      [raise |-> FALSE, res |-> Fail("timeout")],
      [raise |-> TRUE,  res |-> NoResult] }

\* _run_ai_validation, _run_competitor_analysis, _save_to_database
\* (orchestrator.py 406-452): the result handed back and the metrics after it
RunCollaborator(m, operation, o) ==
    IF o.raise
    THEN [res |-> OperationResult("failure", NoneData, "failed with exception", <<>>),
          metrics |-> record_operation(m, operation, FALSE)]
    ELSE [res |-> o.res, metrics |-> record_operation(m, operation, is_success(o.res))]

AIReports == { AIValidationResult(TRUE, 9) }

\* orchestrator.py 172-178
AIValidation ==
    /\ pc = "ai"
    /\ pc' = "competitor"
    /\ IF cfg.ai_validator
       THEN \E rep \in AIReports, o \in CollaboratorOutcomes(ObjectData) :
              LET run == RunCollaborator(metrics, "ai_validation", o) IN
                IF is_success(run.res)
                THEN /\ insights' = [insights EXCEPT !.ai_validation = rep]
                     /\ metrics' = run.metrics
                ELSE /\ metrics' = add_warning(run.metrics, "ai_validation")
                     /\ UNCHANGED insights
       ELSE UNCHANGED <<insights, metrics>>
    /\ UNCHANGED <<url, about_link, cfg, html_result, net, tstate, attempt, invoked, lastRaised,
                   tresult, extraction_results, result, unitVars>>

\* orchestrator.py 180-186
CompetitorAnalysis ==
    /\ pc = "competitor"
    /\ pc' = "save"
    /\ IF cfg.competitor_analyzer
       THEN \E o \in CollaboratorOutcomes(ObjectData) :
              LET run == RunCollaborator(metrics, "competitor_analysis", o) IN
                IF is_success(run.res)
                THEN /\ insights' = [insights EXCEPT !.competitor_analysis = run.res.data]
                     /\ metrics' = run.metrics
                ELSE /\ metrics' = add_warning(run.metrics, "competitor_analysis")
                     /\ UNCHANGED insights
       ELSE UNCHANGED <<insights, metrics>>
    /\ UNCHANGED <<url, about_link, cfg, html_result, net, tstate, attempt, invoked, lastRaised,
                   tresult, extraction_results, result, unitVars>>

\* a persistence step that writes the failure into the record's errors
AfterSave_recordsInErrors(ins, run) ==
    [insights |-> IF ~is_success(run.res)
                  THEN [ins EXCEPT !.errors = Append(@, "Database save error")] ELSE ins,
     metrics  |-> IF ~is_success(run.res)
                  THEN add_warning(run.metrics, "database_save") ELSE run.metrics]

\* What extract_insights does with the result of _save_to_database
\* (orchestrator.py 190-192): the record and the metrics after it
AfterSave(ins, run) ==
    [insights |-> ins,
     metrics  |-> IF ~is_success(run.res)
                  THEN add_warning(run.metrics, "database_save") ELSE run.metrics]

\* orchestrator.py 188-192
SaveToDatabase ==
    /\ pc = "save"
    /\ pc' = "finalize"
    /\ IF cfg.database_service
       THEN \E o \in CollaboratorOutcomes(ObjectData) :
              LET a == AfterSave(insights, RunCollaborator(metrics, "database_save", o)) IN
                /\ insights' = a.insights
                /\ metrics' = a.metrics
       ELSE UNCHANGED <<insights, metrics>>
    /\ UNCHANGED <<url, about_link, cfg, html_result, net, tstate, attempt, invoked, lastRaised,
                   tresult, extraction_results, result, unitVars>>

----------------------------------------------------------------------------
(* Finalize and return                                                     *)

FinalError == "No meaningful data could be extracted from the store"

\* a flag computed from the catalog alone
has_products_catalogOnly(ins) ==
    HasLen(ins.product_catalog) /\ Truthy(ins.product_catalog)

\* orchestrator.py 457: len(product_catalog) > 0 or len(hero_products) > 0
has_products(ins) ==
    \/ HasLen(ins.product_catalog) /\ Truthy(ins.product_catalog)
    \/ HasLen(ins.hero_products) /\ Truthy(ins.hero_products)

\* orchestrator.py 458: bool(brand_context.brand_name)
has_brand_info(ins) ==
    HasBrandName(ins.brand_context) /\ ins.brand_context.text # <<>>

\* _finalize_insights (orchestrator.py 454-464): the record after it, or
\* raises = TRUE when len(..) or .brand_name is read from a value without it
\* ("or" reads the hero list only when the catalog is empty)
FinalizeInsights(ins) ==
    LET catalogOk == HasLen(ins.product_catalog)
        heroRead == catalogOk /\ ~Truthy(ins.product_catalog)
        raises == \/ ~catalogOk
                  \/ heroRead /\ ~HasLen(ins.hero_products)
                  \/ ~HasBrandName(ins.brand_context)
        success == has_products(ins) \/ has_brand_info(ins)
    IN  [raises   |-> raises,
         insights |-> [ins EXCEPT !.extraction_success = success,
                                  !.errors = IF success THEN @ ELSE Append(@, FinalError)]]

\* orchestrator.py 194-206
Finalize ==
    /\ pc = "finalize"
    /\ LET f == FinalizeInsights(insights) IN
        IF f.raises
        THEN /\ TopLevelExcept
             /\ UNCHANGED insights
        ELSE /\ insights' = f.insights
             /\ metrics' = record_operation(metrics, "total_extraction", TRUE)
             /\ result' = OperationResult("success", ObjectData, "", <<>>)
             /\ pc' = "done"
    /\ UNCHANGED <<url, about_link, cfg, html_result, net, tstate, attempt, invoked, lastRaised,
                   tresult, extraction_results, unitVars>>

----------------------------------------------------------------------------
Next ==
    \/ ValidateUrl
    \/ HomepageGetStart
    \/ \E resp \in Responses : HomepageGetAttempt(resp)
    \/ StartFanout
    \/ \E t \in Tasks : \E o \in ExtractorOutcomes(t, html_result.data.text) : TaskAttempt(t, o)
    \/ \E t \in Tasks : TaskWrapperRaise(t)
    \/ Join
    \/ ProcessResults
    \/ AIValidation
    \/ CompetitorAnalysis
    \/ SaveToDatabase
    \/ Finalize

Spec == Init /\ [][Next]_vars

\* Runs on one well-formed URL with every extractor and no optional service,
\* on stores whose homepage may hold an "about" link that resolves to the
\* homepage itself
InitFetch ==
    /\ url = <<"h","t","t","p","s",":","/","/","a">>
    /\ about_link \in BOOLEAN
    /\ cfg = [extractors |-> TRUE, currency_detector |-> TRUE, ai_validator |-> FALSE,
              competitor_analyzer |-> FALSE, database_service |-> FALSE]
    /\ pc = "start"
    /\ insights = BrandInsights(<<>>)
    /\ html_result = NoResult
    /\ net = [calls |-> 0, attempt |-> 0, last |-> "none", wait |-> 0]
    /\ tstate = [t \in Tasks |-> "idle"]
    /\ attempt = [t \in Tasks |-> 0]
    /\ invoked = [t \in Tasks |-> FALSE]
    /\ lastRaised = [t \in Tasks |-> FALSE]
    /\ tresult = [t \in Tasks |-> NoResult]
    /\ extraction_results = [t \in Tasks |-> NoResult]
    /\ metrics = ExtractionMetrics
    /\ result = NoResult
    /\ ai = Off
    /\ breaker = Off
    /\ limiter = Off
    /\ retry = Off
    /\ db = Off
    /\ norm = Off
    /\ faqrun = Off
    /\ cdetect = Off
    /\ mlog = Off
    /\ scraper = Off

SpecFetch == InitFetch /\ [][Next]_vars

----------------------------------------------------------------------------
(* Per-facet AI validation: AIValidatorService.validate_<facet>            *)

Facets == {"brand_context", "policies", "faqs", "social_handles", "contact_details"}

\* reported confidences, in tenths
Confidences == 0..10

\* (ai_validator.py 88, 150, 208, 263, 321), in tenths
ConfidenceThreshold == 7

\* a facet value that is an object (BrandContext, PolicyInfo, ...), named by tag
FacetValue(tag) == Payload("object", <<>>, <<tag>>, "", "")

\* the values a facet can hold before validation
CurrentValues(f) ==
    IF f = "faqs" THEN { ListData(<<>>), ListData(<<"q1">>) }
    ELSE { FacetValue("extracted") }

\* what _extract_<facet>_from_html can return: None, or a value
\* (for the FAQs also an empty list)
ImprovedValues(f) ==
    IF f = "faqs" THEN { NoneData, ListData(<<>>), ListData(<<"q2">>) }
    ELSE { NoneData, FacetValue("from_html") }

\* a test that also sends a confidence equal to the threshold to the analysis
NeedsImprovement_inclusive(is_valid, confidence) ==
    ~is_valid \/ confidence <= ConfidenceThreshold

\* the test that sends the validator to the HTML analysis
\* (ai_validator.py 88, 150, 208, 263, 321)
NeedsImprovement(is_valid, confidence) ==
    ~is_valid \/ confidence < ConfidenceThreshold

\* validate_brand_context, validate_social_handles, validate_contact_details,
\* validate_faqs, validate_policies (ai_validator.py 47-331): the value
\* returned for call c
ValidateFacet(c) ==
    IF ~c.ai_available THEN c.current
    ELSE IF c.facet = "faqs" /\ ~Truthy(c.current) THEN c.current
    ELSE IF c.raises THEN c.current
    ELSE IF c.has_text /\ NeedsImprovement(c.is_valid, c.confidence)
                       /\ Truthy(c.improved)
         THEN c.improved
         ELSE c.current

\* the calls: the facet and its value, whether the Gemini client exists,
\* whether the model call or the parsing of its answer raises, whether the
\* answer has text, the reported is_valid and confidence, and the result of
\* the HTML analysis
AICalls ==
    UNION { [phase : {"call"}, facet : {f}, current : CurrentValues(f),
             ai_available : BOOLEAN, raises : BOOLEAN, has_text : BOOLEAN,
             is_valid : BOOLEAN, confidence : Confidences,
             improved : ImprovedValues(f), returned : {NoneData}] : f \in Facets }

InitAI ==
    /\ ai \in AICalls
    /\ scraper = Off
    /\ breaker = Off
    /\ limiter = Off
    /\ retry = Off
    /\ db = Off
    /\ norm = Off
    /\ faqrun = Off
    /\ cdetect = Off
    /\ mlog = Off
    /\ url = <<>>
    /\ about_link = FALSE
    /\ cfg \in { c \in Configs : ~c.extractors }
    /\ pc = "idle"
    /\ insights = BrandInsights(<<>>)
    /\ html_result = NoResult
    /\ net = [calls |-> 0, attempt |-> 0, last |-> "none", wait |-> 0]
    /\ tstate = [t \in Tasks |-> "idle"]
    /\ attempt = [t \in Tasks |-> 0]
    /\ invoked = [t \in Tasks |-> FALSE]
    /\ lastRaised = [t \in Tasks |-> FALSE]
    /\ tresult = [t \in Tasks |-> NoResult]
    /\ extraction_results = [t \in Tasks |-> NoResult]
    /\ metrics = ExtractionMetrics
    /\ result = NoResult

ValidateCall ==
    /\ ai.phase = "call"
    /\ ai' = [ai EXCEPT !.phase = "returned", !.returned = ValidateFacet(ai)]
    /\ UNCHANGED <<orchVars, scraper, mlog, cdetect, faqrun, norm, db, retry, limiter, breaker>>

NextAI == ValidateCall

SpecAI == InitAI /\ [][NextAI]_vars

----------------------------------------------------------------------------
(* The orchestrator while another component is examined                    *)

OrchestratorIdle ==
    /\ url = <<>>
    /\ about_link = FALSE
    /\ cfg \in { c \in Configs : ~c.extractors }
    /\ pc = "idle"
    /\ insights = BrandInsights(<<>>)
    /\ html_result = NoResult
    /\ net = [calls |-> 0, attempt |-> 0, last |-> "none", wait |-> 0]
    /\ tstate = [t \in Tasks |-> "idle"]
    /\ attempt = [t \in Tasks |-> 0]
    /\ invoked = [t \in Tasks |-> FALSE]
    /\ lastRaised = [t \in Tasks |-> FALSE]
    /\ tresult = [t \in Tasks |-> NoResult]
    /\ extraction_results = [t \in Tasks |-> NoResult]
    /\ metrics = ExtractionMetrics
    /\ result = NoResult

----------------------------------------------------------------------------
(* ShopifyScraperService.extract_all_insights (scraper.py)                 *)

\* the coroutines handed to asyncio.gather, in the order of the list
\* (scraper.py 68-76)
ScraperTasks == <<"products", "brand_context", "policies", "faqs",
                  "social_handles", "contact_details", "important_links">>

\* the string a subtask appends to insights.errors in its except branch
\* (scraper.py 145, 157, 169, 181, 193, 205, 213)
ScraperErrorOf(t) ==
    CASE t = "products"        -> "Product extraction error"
      [] t = "brand_context"   -> "Brand context extraction error"
      [] t = "policies"        -> "Policy extraction error"
      [] t = "faqs"            -> "FAQ extraction error"
      [] t = "social_handles"  -> "Social handles extraction error"
      [] t = "contact_details" -> "Contact details extraction error"
      [] t = "important_links" -> "Important links extraction error"

\* the record built at scraper.py 58-65: every facet at its default;
\* extraction_success defaults to True (models.py 113)
ScraperInsights ==
    [product_catalog |-> "default", detected_currency |-> "default",
     hero_products |-> "default", brand_context |-> "default",
     policies |-> "default", faqs |-> "default", social_handles |-> "default",
     contact_details |-> "default", important_links |-> "default",
     total_products_found |-> "default", ai_validation |-> "default",
     competitor_analysis |-> "default", extraction_success |-> TRUE,
     errors |-> <<>>]

\* What the body of a subtask can do.  _extract_products (scraper.py 128-145)
\* writes the catalog, the currency when one was detected, then the hero
\* products, and may raise before the first or before the last write; when
\* the catalog request fails get_product_catalog_with_currency returns
\* [], "USD", "$" instead of raising (product_scraper.py 85-87); the
\* five AI-validated facets are assigned the scraped value or the value of
\* the HTML analysis, or the subtask raises; _extract_important_links
\* assigns the scraped value, or raises.
ScraperOutcomes(t) ==
    CASE t = "products" -> {"ok", "ok_no_currency", "swallowed", "raise",
                            "raise_after_catalog"}
      [] t = "important_links" -> {"scraped", "raise"}
      [] OTHER -> {"scraped", "from_html", "raise"}

\* the record after subtask t ran with outcome o (scraper.py 128-213)
ScraperSubtaskWrites(ins, t, o) ==
    LET failed == [ins EXCEPT !.errors = Append(@, ScraperErrorOf(t))]
    IN  IF t = "products"
        THEN CASE o = "ok" ->
                    [ins EXCEPT !.product_catalog = "scraped",
                                !.detected_currency = "detected",
                                !.hero_products = "scraped"]
               [] o = "swallowed" ->
                    [ins EXCEPT !.product_catalog = "empty",
                                !.detected_currency = "detected",
                                !.hero_products = "empty"]
               [] o = "ok_no_currency" ->
                    [ins EXCEPT !.product_catalog = "scraped",
                                !.hero_products = "scraped"]
               [] o = "raise_after_catalog" ->
                    [failed EXCEPT !.product_catalog = "scraped",
                                   !.detected_currency = "detected"]
               [] OTHER -> failed
        ELSE IF o = "raise" THEN failed
        ELSE [ins EXCEPT ![t] = o]

\* no HTTP answer of the endpoint yet
NoHttp == [status |-> 0, detail |-> ""]

\* the calls of extract_all_insights
ScraperInit ==
    scraper = [phase |-> "start", next |-> 1, insights |-> ScraperInsights,
               resp |-> "none", raised |-> "none", http |-> NoHttp]

\* what the homepage request of the session can end in (scraper.py 49)
HomepageResponses == {"200", "404", "403", "5xx", "connection_error",
                      "connect_timeout", "read_timeout"}

\* the exception extract_all_insights raises after the homepage request
\* (scraper.py 49-52, 114-116): ValueError on a 404, the HTTPError of
\* raise_for_status on another error status, the exception of the session
\* otherwise
RaisedAfter(resp) ==
    CASE resp = "200"              -> "none"
      [] resp = "404"              -> "ValueError"
      [] resp \in {"403", "5xx"}   -> "HTTPError"
      [] resp = "connection_error" -> "ConnectionError"
      [] resp = "connect_timeout"  -> "ConnectTimeout"
      [] resp = "read_timeout"     -> "ReadTimeout"

\* scraper.py 46-65: the homepage request; a 404, an error status or an
\* exception of the session makes extract_all_insights raise (114-116)
ScraperFetch ==
    /\ scraper.phase = "start"
    /\ \E resp \in HomepageResponses :
         scraper' = [scraper EXCEPT
             !.phase = IF resp = "200" THEN "gather" ELSE "raised",
             !.resp = resp,
             !.raised = RaisedAfter(resp)]
    /\ UNCHANGED <<orchVars, ai, mlog, cdetect, faqrun, norm, db, retry, limiter, breaker>>

\* One subtask of asyncio.gather (scraper.py 79).  No subtask has a
\* suspension point (the services it awaits block on requests.Session), so
\* the event loop runs the subtasks one after the other in the order of the
\* list, each one to its end.
ScraperSubtask(i, o) ==
    /\ scraper.phase = "gather"
    /\ scraper.next = i
    /\ scraper' = [scraper EXCEPT
          !.insights = ScraperSubtaskWrites(@, ScraperTasks[i], o),
          !.next = @ + 1]
    /\ UNCHANGED <<orchVars, ai, mlog, cdetect, faqrun, norm, db, retry, limiter, breaker>>

\* scraper.py 79-82: gather returns and the product count is set
ScraperJoin ==
    /\ scraper.phase = "gather"
    /\ scraper.next > Len(ScraperTasks)
    /\ scraper' = [scraper EXCEPT !.phase = "ai",
                                  !.insights.total_products_found = "counted"]
    /\ UNCHANGED <<orchVars, ai, mlog, cdetect, faqrun, norm, db, retry, limiter, breaker>>

\* scraper.py 84-90: comprehensive_validation
ScraperAIValidation ==
    /\ scraper.phase = "ai"
    /\ \E ok \in BOOLEAN :
         scraper' = [scraper EXCEPT !.phase = "competitor",
            !.insights = IF ok THEN [@ EXCEPT !.ai_validation = "reported"]
                         ELSE [@ EXCEPT !.errors = Append(@, "AI validation error")]]
    /\ UNCHANGED <<orchVars, ai, mlog, cdetect, faqrun, norm, db, retry, limiter, breaker>>

\* scraper.py 92-98: analyze_competitors
ScraperCompetitorAnalysis ==
    /\ scraper.phase = "competitor"
    /\ \E ok \in BOOLEAN :
         scraper' = [scraper EXCEPT !.phase = "save",
            !.insights = IF ok THEN [@ EXCEPT !.competitor_analysis = "analysed"]
                         ELSE [@ EXCEPT !.errors = Append(@, "Competitor analysis error")]]
    /\ UNCHANGED <<orchVars, ai, mlog, cdetect, faqrun, norm, db, retry, limiter, breaker>>

\* scraper.py 100-112: save_brand_insights returns an id, returns None, or
\* raises; the record is returned
ScraperSave ==
    /\ scraper.phase = "save"
    /\ \E o \in {"saved", "not_saved", "raise"} :
         scraper' = [scraper EXCEPT !.phase = "returned",
            !.insights = IF o = "raise"
                         THEN [@ EXCEPT !.errors = Append(@, "Database save error")]
                         ELSE @]
    /\ UNCHANGED <<orchVars, ai, mlog, cdetect, faqrun, norm, db, retry, limiter, breaker>>

\* extract_brand_insights (main.py 42-80): the record is returned (200);
\* ValueError gives 401; ConnectionError and requests' ConnectionError, of
\* which ConnectTimeout is a subclass, give 401; any other exception
\* (HTTPError, ReadTimeout) gives 500
HttpAnswer(raised) ==
    CASE raised = "none" -> [status |-> 200, detail |-> "record"]
      [] raised = "ValueError" ->
           [status |-> 401, detail |-> "Website not found or invalid"]
      [] raised \in {"ConnectionError", "ConnectTimeout"} ->
           [status |-> 401, detail |-> "Website not found or unreachable"]
      [] OTHER -> [status |-> 500, detail |-> "Internal server error"]

\* main.py 63-80: the endpoint answers
EndpointRespond ==
    /\ scraper.phase \in {"raised", "returned"}
    /\ scraper.http = NoHttp
    /\ scraper' = [scraper EXCEPT !.http = HttpAnswer(scraper.raised)]
    /\ UNCHANGED <<orchVars, ai, mlog, cdetect, faqrun, norm, db, retry, limiter, breaker>>

InitScraper ==
    /\ ScraperInit
    /\ ai = Off
    /\ breaker = Off
    /\ limiter = Off
    /\ retry = Off
    /\ db = Off
    /\ norm = Off
    /\ faqrun = Off
    /\ cdetect = Off
    /\ mlog = Off
    /\ OrchestratorIdle

NextScraper ==
    \/ ScraperFetch
    \/ \E i \in 1..Len(ScraperTasks) :
          \E o \in ScraperOutcomes(ScraperTasks[i]) : ScraperSubtask(i, o)
    \/ ScraperJoin
    \/ ScraperAIValidation
    \/ ScraperCompetitorAnalysis
    \/ ScraperSave
    \/ EndpointRespond

SpecScraper == InitScraper /\ [][NextScraper]_vars

----------------------------------------------------------------------------
(* ExtractionMetrics under any sequence of calls (orchestrator.py 22-70)   *)

\* the longest sequence of calls examined
MaxCalls == 3

\* the operation names passed in the calls
CalledOperations == {"product_extraction", "currency_detection", "total_extraction"}

\* a quotient num / den
Quotient(num, den) == [num |-> num, den |-> den]

\* ExtractionMetrics.get_summary (orchestrator.py 56-70): the counts are
\* taken over the entries of the operations dict
get_summary(m) ==
    LET recorded == { o \in OpNames : m.operations[o] # "absent" }
        successful_ops == Cardinality({ o \in recorded : m.operations[o] = "true" })
        total_ops == Cardinality(recorded)
    IN  [total_operations      |-> total_ops,
         successful_operations |-> successful_ops,
         success_rate          |-> IF total_ops > 0
                                   THEN Quotient(successful_ops, total_ops)
                                   ELSE Quotient(0, 1),
         error_count           |-> Len(m.errors),
         warning_count         |-> Len(m.warnings)]

\* the calls made so far on the object
CallsMade == mlog.n + Len(mlog.metrics.errors) + Len(mlog.metrics.warnings)

InitMetrics ==
    /\ mlog = [phase |-> "calls", metrics |-> ExtractionMetrics, n |-> 0, ok |-> 0]
    /\ ai = Off
    /\ breaker = Off
    /\ limiter = Off
    /\ retry = Off
    /\ db = Off
    /\ norm = Off
    /\ faqrun = Off
    /\ cdetect = Off
    /\ scraper = Off
    /\ OrchestratorIdle

MetricsRecordOperation(operation, success) ==
    /\ mlog.phase = "calls"
    /\ CallsMade < MaxCalls
    /\ mlog' = [mlog EXCEPT !.metrics = record_operation(@, operation, success),
                            !.n = @ + 1,
                            !.ok = IF success THEN @ + 1 ELSE @]
    /\ UNCHANGED <<orchVars, ai, scraper, cdetect, faqrun, norm, db, retry, limiter, breaker>>

MetricsAddError(operation) ==
    /\ mlog.phase = "calls"
    /\ CallsMade < MaxCalls
    /\ mlog' = [mlog EXCEPT !.metrics = add_error(@, operation)]
    /\ UNCHANGED <<orchVars, ai, scraper, cdetect, faqrun, norm, db, retry, limiter, breaker>>

MetricsAddWarning(operation) ==
    /\ mlog.phase = "calls"
    /\ CallsMade < MaxCalls
    /\ mlog' = [mlog EXCEPT !.metrics = add_warning(@, operation)]
    /\ UNCHANGED <<orchVars, ai, scraper, cdetect, faqrun, norm, db, retry, limiter, breaker>>

NextMetrics ==
    \/ \E operation \in CalledOperations, success \in BOOLEAN :
          MetricsRecordOperation(operation, success)
    \/ \E operation \in CalledOperations : MetricsAddError(operation)
    \/ \E operation \in CalledOperations : MetricsAddWarning(operation)

SpecMetrics == InitMetrics /\ [][NextMetrics]_vars

----------------------------------------------------------------------------
(* CurrencyService (currency_service.py)                                   *)

\* p occurs in s (the Python test "p in s")
IsSubstring(p, s) ==
    \E i \in 0..(Len(s) - Len(p)) : SubSeq(s, i + 1, i + Len(p)) = p

\* s ends with p
EndsWith(s, p) ==
    Len(s) >= Len(p) /\ SubSeq(s, Len(s) - Len(p) + 1, Len(s)) = p

\* currency_symbols (currency_service.py 20-33), in the order of the dict.
\* The symbols outside ASCII are written by name.
currency_symbols ==
    << [code |-> "USD", symbol |-> "$"],     [code |-> "INR", symbol |-> "rupee"],
       [code |-> "EUR", symbol |-> "euro"],  [code |-> "GBP", symbol |-> "pound"],
       [code |-> "JPY", symbol |-> "yen"],   [code |-> "RUB", symbol |-> "ruble"],
       [code |-> "CAD", symbol |-> "C$"],    [code |-> "AUD", symbol |-> "A$"],
       [code |-> "SEK", symbol |-> "kr"],    [code |-> "PLN", symbol |-> "zl"],
       [code |-> "BRL", symbol |-> "R$"],    [code |-> "KRW", symbol |-> "won"] >>

CurrencyCodes == { currency_symbols[i].code : i \in 1..Len(currency_symbols) }

\* _get_symbol_for_code (currency_service.py 188-190)
get_symbol_for_code(code) ==
    IF code \in CurrencyCodes
    THEN (CHOOSE e \in { currency_symbols[i] : i \in 1..Len(currency_symbols) } :
              e.code = code).symbol
    ELSE code

\* a (currency, symbol) pair as the functions return it
Pair(c, sym) == [currency |-> c, symbol |-> sym]

\* the generic default
DefaultCurrency == Pair("USD", "$")

\* a step that found nothing (None), and a step that was not attempted
NothingFound == Pair("none", "none")
NotAttempted == Pair("", "")

\* domain_mappings (currency_service.py 123-137), in the order of the dict
domain_mappings ==
    << [suffix |-> <<".","i","n">>, code |-> "INR"],
       [suffix |-> <<".","c","o",".","i","n">>, code |-> "INR"],
       [suffix |-> <<".","u","k">>, code |-> "GBP"],
       [suffix |-> <<".","c","o",".","u","k">>, code |-> "GBP"],
       [suffix |-> <<".","d","e">>, code |-> "EUR"],
       [suffix |-> <<".","f","r">>, code |-> "EUR"],
       [suffix |-> <<".","c","a">>, code |-> "CAD"],
       [suffix |-> <<".","a","u">>, code |-> "AUD"],
       [suffix |-> <<".","c","o","m",".","a","u">>, code |-> "AUD"],
       [suffix |-> <<".","j","p">>, code |-> "JPY"],
       [suffix |-> <<".","k","r">>, code |-> "KRW"],
       [suffix |-> <<".","b","r">>, code |-> "BRL"],
       [suffix |-> <<".","r","u">>, code |-> "RUB"] >>

\* the first entry of domain_mappings from index i on whose suffix occurs in u
RECURSIVE FirstDomainMatch(_, _)
FirstDomainMatch(u, i) ==
    IF i > Len(domain_mappings) THEN 0
    ELSE IF IsSubstring(domain_mappings[i].suffix, u) THEN i
    ELSE FirstDomainMatch(u, i + 1)

Str_dot_in == <<".","i","n">>
Str_india  == <<"i","n","d","i","a">>

\* _detect_currency_by_domain (currency_service.py 121-152)
detect_currency_by_domain(u) ==
    LET url_lower == Lower(u)
        k == FirstDomainMatch(url_lower, 1)
    IN  IF IsSubstring(Str_dot_in, url_lower) \/ IsSubstring(Str_india, url_lower)
        THEN Pair("INR", "rupee")
        ELSE IF k > 0
        THEN Pair(domain_mappings[k].code, get_symbol_for_code(domain_mappings[k].code))
        ELSE NothingFound

\* the indicators of step 6 (currency_service.py 112)
IndianIndicators ==
    { Str_dot_in, Str_india, <<"m","u","m","b","a","i">>, <<"d","e","l","h","i">> }

\* The price strings of the product data.  kind "none": no product or no
\* price; "plain": digits only; "symbol": the price holds the symbol of
\* currency cur; "code": the price holds the code of currency cur.
Prices(kind, cur) == [kind |-> kind, cur |-> cur]

\* detect_currency_from_products (currency_service.py 43-59).  The loop
\* "for symbol, code in self.currency_symbols.items()" binds symbol to the key
\* (the code) and code to the value (the symbol): the test looks for the code
\* in the price string, and the pair is returned as (symbol, code).
detect_currency_from_products(prices) ==
    IF prices.kind = "code" /\ prices.cur \in CurrencyCodes
    THEN Pair(get_symbol_for_code(prices.cur), prices.cur)
    ELSE DefaultCurrency

\* the steps of detect_and_convert_product_prices, in the order of the code:
\* the six of detect_currency_from_html (currency_service.py 64-114), the
\* product data (257-261), the final fallback (263-265)
CurrencySteps == <<"domain", "address", "meta", "text", "price_elements",
                   "url_keywords", "products", "fallback">>

StepIndex(st) == CHOOSE i \in 1..Len(CurrencySteps) : CurrencySteps[i] = st

\* the URLs examined (none has a path, a query or a fragment)
CurrencyUrls ==
    { <<"h","t","t","p","s",":","/","/","a",".","c","o","m">>,
      <<"h","t","t","p","s",":","/","/","a",".","i","n">>,
      <<"h","t","t","p","s",":","/","/","a",".","d","e">>,
      <<"h","t","t","p","s",":","/","/","a",".","c","o",".","u","k">>,
      <<"h","t","t","p","s",":","/","/","a",".","i","n","n",".","d","e">>,
      <<"h","t","t","p","s",":","/","/","d","e","l","h","i",".","c","o","m">> }

\* what the address sections, the meta tag, the page text and the price
\* elements of the page hold: nothing, or a currency
AddressSignals == {"USD", "INR", "GBP"}
MetaSignals == {"none", "EUR", "XXX"}
TextSignals == {"none", "INR", "USD"}
PriceElementSignals == {"none", "USD", "GBP"}
PriceInputs == { Prices("none", "USD"), Prices("plain", "USD"), Prices("symbol", "USD"),
                 Prices("symbol", "INR"), Prices("code", "INR"), Prices("code", "USD") }

\* the inputs of a call of detect_and_convert_product_prices: the URL, what
\* the page holds, whether the page can be parsed, the product prices
CurrencyCalls ==
    [phase : {"run"}, url : CurrencyUrls, address : AddressSignals,
     meta : MetaSignals, text : TextSignals, price_elements : PriceElementSignals,
     parses : BOOLEAN, prices : PriceInputs, step : {1},
     yields : {[st \in {CurrencySteps[i] : i \in 1..Len(CurrencySteps)} |-> NotAttempted]},
     html : {NotAttempted}, detected : {NotAttempted}]

InitCurrency ==
    /\ cdetect \in CurrencyCalls
    /\ ai = Off
    /\ breaker = Off
    /\ limiter = Off
    /\ retry = Off
    /\ db = Off
    /\ norm = Off
    /\ faqrun = Off
    /\ scraper = Off
    /\ mlog = Off
    /\ OrchestratorIdle

\* the step st of detect_currency_from_html yields y; when it returns,
\* detect_currency_from_html ends with y (or with the final fallback of line
\* 119 when nothing was found)
AfterHtmlStep(st, y, returns) ==
    cdetect' = [cdetect EXCEPT
        !.yields[st] = y,
        !.step = IF returns THEN StepIndex("products") ELSE @ + 1,
        !.html = IF ~returns THEN @
                 ELSE IF y = NothingFound THEN DefaultCurrency ELSE y]

AtStep(st) == cdetect.phase = "run" /\ CurrencySteps[cdetect.step] = st

\* currency_service.py 64-67
DomainStep ==
    /\ AtStep("domain")
    /\ LET y == detect_currency_by_domain(cdetect.url) IN
         AfterHtmlStep("domain", y, y # NothingFound)
    /\ UNCHANGED <<orchVars, ai, scraper, mlog, faqrun, norm, db, retry, limiter, breaker>>

\* currency_service.py 69-75, 154-186: the address text gives a code ('USD'
\* when nothing is found or the page cannot be parsed); a page that cannot be
\* parsed then raises at line 75, and the except branch ends the detection
\* with the default
AddressStep ==
    /\ AtStep("address")
    /\ LET code == IF cdetect.parses THEN cdetect.address ELSE "USD"
           y == Pair(code, get_symbol_for_code(code))
       IN  IF code # "USD" THEN AfterHtmlStep("address", y, TRUE)
           ELSE IF ~cdetect.parses
           THEN cdetect' = [cdetect EXCEPT !.yields["address"] = y,
                                           !.step = StepIndex("products"),
                                           !.html = DefaultCurrency]
           ELSE AfterHtmlStep("address", y, FALSE)
    /\ UNCHANGED <<orchVars, ai, scraper, mlog, faqrun, norm, db, retry, limiter, breaker>>

\* currency_service.py 77-83
MetaStep ==
    /\ AtStep("meta")
    /\ IF cdetect.meta \in CurrencyCodes
       THEN AfterHtmlStep("meta", Pair(cdetect.meta, get_symbol_for_code(cdetect.meta)), TRUE)
       ELSE AfterHtmlStep("meta", NothingFound, FALSE)
    /\ UNCHANGED <<orchVars, ai, scraper, mlog, faqrun, norm, db, retry, limiter, breaker>>

\* currency_service.py 85-101
TextStep ==
    /\ AtStep("text")
    /\ IF cdetect.text # "none"
       THEN AfterHtmlStep("text", Pair(cdetect.text, get_symbol_for_code(cdetect.text)), TRUE)
       ELSE AfterHtmlStep("text", NothingFound, FALSE)
    /\ UNCHANGED <<orchVars, ai, scraper, mlog, faqrun, norm, db, retry, limiter, breaker>>

\* currency_service.py 103-109
PriceElementsStep ==
    /\ AtStep("price_elements")
    /\ IF cdetect.price_elements # "none"
       THEN AfterHtmlStep("price_elements",
                Pair(cdetect.price_elements, get_symbol_for_code(cdetect.price_elements)), TRUE)
       ELSE AfterHtmlStep("price_elements", NothingFound, FALSE)
    /\ UNCHANGED <<orchVars, ai, scraper, mlog, faqrun, norm, db, retry, limiter, breaker>>

\* currency_service.py 111-119
UrlKeywordsStep ==
    /\ AtStep("url_keywords")
    /\ IF \E ind \in IndianIndicators : IsSubstring(ind, Lower(cdetect.url))
       THEN AfterHtmlStep("url_keywords", Pair("INR", "rupee"), TRUE)
       ELSE AfterHtmlStep("url_keywords", NothingFound, TRUE)
    /\ UNCHANGED <<orchVars, ai, scraper, mlog, faqrun, norm, db, retry, limiter, breaker>>

\* currency_service.py 258: the product data is read only if the page gave
\* the default
ProductsGate(html) == html.currency = "USD" /\ html.symbol = "$"

\* currency_service.py 255-261
ProductsStep ==
    /\ AtStep("products")
    /\ IF ProductsGate(cdetect.html)
       THEN LET y == detect_currency_from_products(cdetect.prices) IN
              cdetect' = [cdetect EXCEPT
                  !.yields["products"] = y,
                  !.step = @ + 1,
                  !.detected = IF y.currency # "USD" THEN y ELSE cdetect.html]
       ELSE cdetect' = [cdetect EXCEPT !.step = @ + 1, !.detected = cdetect.html]
    /\ UNCHANGED <<orchVars, ai, scraper, mlog, faqrun, norm, db, retry, limiter, breaker>>

\* currency_service.py 263-268: the URL is read only if the currency is
\* still 'USD'; the pair is returned
FallbackStep ==
    /\ AtStep("fallback")
    /\ IF cdetect.detected.currency = "USD"
       THEN LET indian == \/ IsSubstring(Str_dot_in, Lower(cdetect.url))
                          \/ IsSubstring(Str_india, Lower(cdetect.url))
                y == IF indian THEN Pair("INR", "rupee") ELSE NothingFound
            IN  cdetect' = [cdetect EXCEPT
                    !.yields["fallback"] = y,
                    !.phase = "returned",
                    !.detected = IF indian THEN y ELSE @]
       ELSE cdetect' = [cdetect EXCEPT !.phase = "returned"]
    /\ UNCHANGED <<orchVars, ai, scraper, mlog, faqrun, norm, db, retry, limiter, breaker>>

NextCurrency ==
    \/ DomainStep
    \/ AddressStep
    \/ MetaStep
    \/ TextStep
    \/ PriceElementsStep
    \/ UrlKeywordsStep
    \/ ProductsStep
    \/ FallbackStep

SpecCurrency == InitCurrency /\ [][NextCurrency]_vars

----------------------------------------------------------------------------
(* The FAQ list: ContentScraperService.get_faqs and                        *)
(* AIValidatorService.validate_faqs, as called by                          *)
(* ShopifyScraperService._extract_faqs                                     *)

\* the largest number of distinct questions the pages hold
MaxScraped == 17

\* content_scraper.py 192: "if len(unique_faqs) >= 15"
FaqLimit == 15

\* models.py 26-29; the question is a character sequence
FAQ(question, answer) == [question |-> question, answer |-> answer]

\* the n first questions of the pages, in lower case, followed by the m first
\* of them again in upper case
FaqList(n, m) ==
    [i \in 1..n |-> FAQ(<<"h", ToString(i)>>, "a")] \o
    [i \in 1..(IF m < n THEN m ELSE n) |-> FAQ(<<"H", ToString(i)>>, "b")]

\* what the FAQ pages and the homepage give (content_scraper.py 158-180)
ScrapedLists == { FaqList(n, m) : n \in 0..MaxScraped, m \in 0..2 }

\* what the model answers to the extraction prompt (ai_validator.py 776-785)
ImprovedLists == { FaqList(n, m) : n \in {0, 1, 2, MaxScraped - 1}, m \in 0..1 }

\* content_scraper.py 183-193: the loop that removes duplicates and limits
RECURSIVE UniqueFaqs(_, _, _, _)
UniqueFaqs(faqs, i, unique_faqs, seen_questions) ==
    IF i > Len(faqs) THEN unique_faqs
    ELSE LET q     == Lower(faqs[i].question)
             fresh == q \notin seen_questions
             u     == IF fresh THEN Append(unique_faqs, faqs[i]) ELSE unique_faqs
             s     == IF fresh THEN seen_questions \cup {q} ELSE seen_questions
         IN  IF Len(u) >= FaqLimit THEN u
             ELSE UniqueFaqs(faqs, i + 1, u, s)

\* get_faqs (content_scraper.py 143-199): the unique list, or [] when the
\* homepage request raises
get_faqs(fetched, scraped) ==
    IF fetched THEN UniqueFaqs(scraped, 1, <<>>, {}) ELSE <<>>

\* validate_faqs (ai_validator.py 220-273).  answer is what the validation
\* call gives: "raises", "no_text", or a verdict; improved is what
\* _extract_faqs_from_html returns, None or a list
validate_faqs(ai_available, faqs, answer, improved) ==
    IF ~ai_available \/ faqs = <<>> THEN faqs
    ELSE IF answer.kind # "verdict" THEN faqs
    ELSE IF NeedsImprovement(answer.is_valid, answer.confidence)
            /\ ~improved.none /\ improved.faqs # <<>>
    THEN improved.faqs
    ELSE faqs

\* what _extract_faqs_from_html returns (ai_validator.py 665-791)
ImprovedAnswers ==
    {[none |-> TRUE, faqs |-> <<>>]} \cup [none : {FALSE}, faqs : ImprovedLists]

FaqAnswers ==
    {[kind |-> "raises", is_valid |-> FALSE, confidence |-> 0],
     [kind |-> "no_text", is_valid |-> FALSE, confidence |-> 0]} \cup
    [kind : {"verdict"}, is_valid : BOOLEAN,
     confidence : {ConfidenceThreshold - 1, ConfidenceThreshold}]

InitFaq ==
    /\ faqrun \in [phase : {"start"}, scraped : ScrapedLists, ai_available : BOOLEAN,
                   faqs : {<<>>}, insights_faqs : {<<>>}]
    /\ ai = Off
    /\ breaker = Off
    /\ limiter = Off
    /\ retry = Off
    /\ db = Off
    /\ norm = Off
    /\ scraper = Off
    /\ mlog = Off
    /\ cdetect = Off
    /\ OrchestratorIdle

\* scraper.py 175
FaqScrape ==
    /\ faqrun.phase = "start"
    /\ \E fetched \in BOOLEAN :
         faqrun' = [faqrun EXCEPT !.phase = "scraped",
                                  !.faqs = get_faqs(fetched, faqrun.scraped)]
    /\ UNCHANGED <<orchVars, ai, scraper, mlog, cdetect, norm, db, retry, limiter, breaker>>

\* scraper.py 178
FaqValidate ==
    /\ faqrun.phase = "scraped"
    /\ \E answer \in FaqAnswers : \E improved \in ImprovedAnswers :
         faqrun' = [faqrun EXCEPT
             !.phase = "done",
             !.insights_faqs = validate_faqs(faqrun.ai_available, faqrun.faqs,
                                             answer, improved)]
    /\ UNCHANGED <<orchVars, ai, scraper, mlog, cdetect, norm, db, retry, limiter, breaker>>

NextFaq == FaqScrape \/ FaqValidate

SpecFaq == InitFaq /\ [][NextFaq]_vars

----------------------------------------------------------------------------
(* URL normalization: URLValidator.validate_url,                           *)
(* ShopifyScraperService._normalize_url and helpers.normalize_url          *)

\* the longest text after the scheme of an input
MaxUrlLen == 3

\* str.rstrip('/')
RECURSIVE RStripSlash(_)
RStripSlash(s) ==
    IF s # <<>> /\ s[Len(s)] = "/" THEN RStripSlash(SubSeq(s, 1, Len(s) - 1)) ELSE s

\* helpers.normalize_url (helpers.py 24-41)
normalize_url(u) ==
    LET n == IF StartsWith(u, Str_http) \/ StartsWith(u, Str_https)
             THEN u ELSE Str_https \o u
    IN  RStripSlash(n)

\* ShopifyScraperService._normalize_url (scraper.py 118-126)
scraper_normalize_url(u) ==
    LET n == IF StartsWith(u, Str_http) \/ StartsWith(u, Str_https)
             THEN u ELSE Str_https \o u
    IN  RStripSlash(n)

Normalizers == {"validate_url", "_normalize_url", "normalize_url"}

\* the normalized URL a normalizer gives for u; defined is FALSE when
\* validate_url does not return Success
Normalize(which, u) ==
    CASE which = "validate_url" ->
           LET r == validate_url(u) IN
             [defined |-> is_success(r), url |-> r.data.text]
      [] which = "_normalize_url" -> [defined |-> TRUE, url |-> scraper_normalize_url(u)]
      [] OTHER -> [defined |-> TRUE, url |-> normalize_url(u)]

RECURSIVE Texts(_)
Texts(n) ==
    IF n = 0 THEN {<<>>}
    ELSE LET shorter == Texts(n - 1) IN
           shorter \cup { Append(t, c) : t \in shorter, c \in {"a", "/", " "} }

\* the input strings: with no scheme, with http://, with https://
NormInputs ==
    { pre \o t : pre \in {<<>>, Str_http, Str_https}, t \in Texts(MaxUrlLen) }

Undefined == [defined |-> FALSE, url |-> <<>>]

InitNormalize ==
    /\ norm \in [phase : {"input"}, which : Normalizers, u : NormInputs,
                 once : {Undefined}, twice : {Undefined}]
    /\ ai = Off
    /\ breaker = Off
    /\ limiter = Off
    /\ retry = Off
    /\ db = Off
    /\ scraper = Off
    /\ mlog = Off
    /\ cdetect = Off
    /\ faqrun = Off
    /\ OrchestratorIdle

\* the first application
NormalizeOnce ==
    /\ norm.phase = "input"
    /\ norm' = [norm EXCEPT !.phase = "once", !.once = Normalize(norm.which, norm.u)]
    /\ UNCHANGED <<orchVars, ai, scraper, mlog, cdetect, faqrun, db, retry, limiter, breaker>>

\* the normalizer applied to its own result
NormalizeTwice ==
    /\ norm.phase = "once"
    /\ norm.once.defined
    /\ norm' = [norm EXCEPT !.phase = "twice",
                            !.twice = Normalize(norm.which, norm.once.url)]
    /\ UNCHANGED <<orchVars, ai, scraper, mlog, cdetect, faqrun, db, retry, limiter, breaker>>

NextNormalize == NormalizeOnce \/ NormalizeTwice

SpecNormalize == InitNormalize /\ [][NextNormalize]_vars

----------------------------------------------------------------------------
(* DatabaseService.save_brand_insights                                     *)

\* the number of save_brand_insights calls made one after the other
MaxSaves == 3

StoreUrls == {"u1", "u2"}

\* the records handed to save_brand_insights, reduced to what is stored:
\* the URL, the brand name (a column of the brand row), the product, FAQ and
\* competitor lists (the child rows)
Record(u, name, products, faqs, competitors) ==
    [website_url |-> u, brand_name |-> name, product_catalog |-> products,
     faqs |-> faqs, competitor_insights |-> competitors]

SavedRecords ==
    UNION { { Record(u, "A", <<"p1", "p2">>, <<"f1">>, <<"c1">>),
              Record(u, "B", <<"p1">>, <<>>, <<>>),
              Record(u, "A", <<>>, <<"f1">>, <<>>),
              Record(u, "B", <<"p3">>, <<"f2">>, <<"c1">>) } : u \in StoreUrls }

NoRecord == Record("", "", <<>>, <<>>, <<>>)

NoCall == [rec |-> NoRecord, step |-> "idle", brand_id |-> 0, i |-> 0]

\* the tables (database_service.py 34-100): brand_insights is a set of rows
\* with a SERIAL id and a UNIQUE store_url; the child tables hold rows that
\* refer to a brand row
Tables(t) ==
    [brand_insights |-> t.brand_insights, products |-> t.products,
     faqs |-> t.faqs, competitors |-> t.competitors]

\* INSERT INTO brand_insights without the ON CONFLICT clause
Upsert_insertOnly(t, next_id, rec) ==
    [brand_insights |-> t.brand_insights \cup
        {[id |-> next_id, store_url |-> rec.website_url, brand_name |-> rec.brand_name]},
     brand_id |-> next_id, next_id |-> next_id + 1]

\* INSERT ... ON CONFLICT (store_url) DO UPDATE ... RETURNING id
\* (database_service.py 112-149)
Upsert(t, next_id, rec) ==
    LET old == { r \in t.brand_insights : r.store_url = rec.website_url } IN
      IF old = {}
      THEN [brand_insights |-> t.brand_insights \cup
               {[id |-> next_id, store_url |-> rec.website_url, brand_name |-> rec.brand_name]},
            brand_id |-> next_id, next_id |-> next_id + 1]
      ELSE [brand_insights |->
               { IF r \in old THEN [r EXCEPT !.brand_name = rec.brand_name] ELSE r
                 : r \in t.brand_insights },
            brand_id |-> (CHOOSE r \in old : TRUE).id, next_id |-> next_id]

\* DELETE FROM <table> WHERE brand_insights_id = $1
DeleteRows(rows, brand_id) == SelectSeq(rows, LAMBDA r : r.brand_insights_id # brand_id)

\* INSERT INTO <table> (brand_insights_id, ...) VALUES ($1, ...)
InsertRow(rows, brand_id, item) ==
    Append(rows, [brand_insights_id |-> brand_id, item |-> item])

InitDb ==
    /\ db = [brand_insights |-> {}, products |-> <<>>, faqs |-> <<>>,
             competitors |-> <<>>, next_id |-> 1, call |-> NoCall,
             before |-> [brand_insights |-> {}, products |-> <<>>, faqs |-> <<>>,
                         competitors |-> <<>>],
             returned |-> "none", saves |-> 0, all_saved |-> TRUE,
             last_saved |-> [u \in StoreUrls |-> NoRecord]]
    /\ ai = Off
    /\ breaker = Off
    /\ limiter = Off
    /\ retry = Off
    /\ scraper = Off
    /\ mlog = Off
    /\ cdetect = Off
    /\ faqrun = Off
    /\ norm = Off
    /\ OrchestratorIdle

\* save_brand_insights is called (database_service.py 107)
DbSaveCall(rec) ==
    /\ db.call.step = "idle"
    /\ db.saves < MaxSaves
    /\ db' = [db EXCEPT !.call = [rec |-> rec, step |-> "upsert", brand_id |-> 0, i |-> 1],
                        !.before = Tables(db),
                        !.returned = "none",
                        !.saves = @ + 1]
    /\ UNCHANGED <<orchVars, ai, scraper, mlog, cdetect, faqrun, norm, retry, limiter, breaker>>

\* database_service.py 112-149
DbUpsert ==
    /\ db.call.step = "upsert"
    /\ LET u == Upsert(db, db.next_id, db.call.rec) IN
         db' = [db EXCEPT !.brand_insights = u.brand_insights,
                          !.next_id = u.next_id,
                          !.call.brand_id = u.brand_id,
                          !.call.step = "delete_products"]
    /\ UNCHANGED <<orchVars, ai, scraper, mlog, cdetect, faqrun, norm, retry, limiter, breaker>>

\* database_service.py 153
DbDeleteProducts ==
    /\ db.call.step = "delete_products"
    /\ db' = [db EXCEPT !.products = DeleteRows(@, db.call.brand_id),
                        !.call.step = "delete_faqs"]
    /\ UNCHANGED <<orchVars, ai, scraper, mlog, cdetect, faqrun, norm, retry, limiter, breaker>>

\* database_service.py 154
DbDeleteFaqs ==
    /\ db.call.step = "delete_faqs"
    /\ db' = [db EXCEPT !.faqs = DeleteRows(@, db.call.brand_id),
                        !.call.step = "delete_competitors"]
    /\ UNCHANGED <<orchVars, ai, scraper, mlog, cdetect, faqrun, norm, retry, limiter, breaker>>

\* database_service.py 155
DbDeleteCompetitors ==
    /\ db.call.step = "delete_competitors"
    /\ db' = [db EXCEPT !.competitors = DeleteRows(@, db.call.brand_id),
                        !.call.step = "products", !.call.i = 1]
    /\ UNCHANGED <<orchVars, ai, scraper, mlog, cdetect, faqrun, norm, retry, limiter, breaker>>

\* _save_products (database_service.py 158, 177-198): one INSERT per product
DbSaveProducts ==
    /\ db.call.step = "products"
    /\ IF db.call.i <= Len(db.call.rec.product_catalog)
       THEN db' = [db EXCEPT
                !.products = InsertRow(@, db.call.brand_id,
                                       db.call.rec.product_catalog[db.call.i]),
                !.call.i = @ + 1]
       ELSE db' = [db EXCEPT !.call.step = "faqs", !.call.i = 1]
    /\ UNCHANGED <<orchVars, ai, scraper, mlog, cdetect, faqrun, norm, retry, limiter, breaker>>

\* _save_faqs (database_service.py 161, 200-206)
DbSaveFaqs ==
    /\ db.call.step = "faqs"
    /\ IF db.call.i <= Len(db.call.rec.faqs)
       THEN db' = [db EXCEPT
                !.faqs = InsertRow(@, db.call.brand_id, db.call.rec.faqs[db.call.i]),
                !.call.i = @ + 1]
       ELSE db' = [db EXCEPT !.call.step = "competitors", !.call.i = 1]
    /\ UNCHANGED <<orchVars, ai, scraper, mlog, cdetect, faqrun, norm, retry, limiter, breaker>>

\* _save_competitors (database_service.py 164-165, 208-228)
DbSaveCompetitors ==
    /\ db.call.step = "competitors"
    /\ IF db.call.i <= Len(db.call.rec.competitor_insights)
       THEN db' = [db EXCEPT
                !.competitors = InsertRow(@, db.call.brand_id,
                                          db.call.rec.competitor_insights[db.call.i]),
                !.call.i = @ + 1]
       ELSE db' = [db EXCEPT !.call.step = "return"]
    /\ UNCHANGED <<orchVars, ai, scraper, mlog, cdetect, faqrun, norm, retry, limiter, breaker>>

\* database_service.py 167-168: the id is returned
DbReturnId ==
    /\ db.call.step = "return"
    /\ db' = [db EXCEPT !.call = NoCall,
                        !.returned = "id",
                        !.last_saved[db.call.rec.website_url] = db.call.rec]
    /\ UNCHANGED <<orchVars, ai, scraper, mlog, cdetect, faqrun, norm, retry, limiter, breaker>>

\* database_service.py 173-175: a statement raises (the connection is lost,
\* a value does not fit its column); the except branch returns None
DbStatementRaises ==
    /\ db.call.step \notin {"idle", "return"}
    /\ db' = [db EXCEPT !.call = NoCall, !.returned = "None", !.all_saved = FALSE]
    /\ UNCHANGED <<orchVars, ai, scraper, mlog, cdetect, faqrun, norm, retry, limiter, breaker>>

NextDb ==
    \/ \E rec \in SavedRecords : DbSaveCall(rec)
    \/ DbUpsert
    \/ DbDeleteProducts
    \/ DbDeleteFaqs
    \/ DbDeleteCompetitors
    \/ DbSaveProducts
    \/ DbSaveFaqs
    \/ DbSaveCompetitors
    \/ DbReturnId
    \/ DbStatementRaises

SpecDb == InitDb /\ [][NextDb]_vars

----------------------------------------------------------------------------
(* The retry handler of ErrorHandlerFactory.create_retry_handler, called   *)
(* on any operation                                                        *)

\* what an invocation of the wrapped operation can end in
OperationOutcomes == ExtractorOutcomes("products", <<"x">>)

InitRetry ==
    /\ retry = [phase |-> "running", attempt |-> 0, outcomes |-> <<>>,
                waits |-> <<>>, result |-> NoResult]
    /\ ai = Off
    /\ breaker = Off
    /\ limiter = Off
    /\ scraper = Off
    /\ mlog = Off
    /\ cdetect = Off
    /\ faqrun = Off
    /\ norm = Off
    /\ db = Off
    /\ OrchestratorIdle

\* one iteration of the loop (factory.py 328-353): the operation is invoked
\* and ends in o; the handler returns (after the last iteration, from the
\* statement that follows the loop), or sleeps and goes on
RetryAttempt(o) ==
    /\ retry.phase = "running"
    /\ retry.attempt <= max_retries
    /\ LET r == RetryIteration(retry.attempt, o) IN
         retry' = [retry EXCEPT
             !.outcomes = Append(@, o),
             !.phase = IF r = NoResult THEN "running" ELSE "returned",
             !.result = r,
             !.attempt = IF r = NoResult THEN @ + 1 ELSE @,
             !.waits = IF r = NoResult THEN Append(@, BackoffWait(retry.attempt)) ELSE @]
    /\ UNCHANGED <<orchVars, ai, scraper, mlog, cdetect, faqrun, norm, db, limiter, breaker>>

NextRetry == \E o \in OperationOutcomes : RetryAttempt(o)

SpecRetry == InitRetry /\ [][NextRetry]_vars

\* the operation and the sleep end, so the handler is not suspended for ever
SpecRetryFair == SpecRetry /\ WF_vars(NextRetry)

----------------------------------------------------------------------------
(* RateLimiter and the admission test of NetworkHandler.get (base.py)      *)

\* RateLimiter.__init__ (base.py 121-124), in small
max_requests == 2
time_window == 2

\* the last reading of the clock
MaxTime == 5

\* a limiter that rejects only when the window holds more than max_requests
can_proceed_offByOne(requests, now) ==
    LET recent == SelectSeq(requests, LAMBDA t : now - t < time_window) IN
      IF Len(recent) > max_requests
      THEN [ok |-> FALSE, requests |-> recent]
      ELSE [ok |-> TRUE, requests |-> Append(recent, now)]

\* RateLimiter.can_proceed (base.py 126-136): the answer and the list kept
can_proceed(requests, now) ==
    LET recent == SelectSeq(requests, LAMBDA t : now - t < time_window) IN
      IF Len(recent) >= max_requests
      THEN [ok |-> FALSE, requests |-> recent]
      ELSE [ok |-> TRUE, requests |-> Append(recent, now)]

InitLimiter ==
    /\ limiter = [now |-> 0, requests |-> <<>>, admitted |-> <<>>,
                  answer |-> "none", issued |-> 0, status |-> "none"]
    /\ ai = Off
    /\ breaker = Off
    /\ scraper = Off
    /\ mlog = Off
    /\ cdetect = Off
    /\ faqrun = Off
    /\ norm = Off
    /\ db = Off
    /\ retry = Off
    /\ OrchestratorIdle

\* time.time() moves on
ClockTick ==
    /\ limiter.now < MaxTime
    /\ limiter' = [limiter EXCEPT !.now = @ + 1]
    /\ UNCHANGED <<orchVars, ai, scraper, mlog, cdetect, faqrun, norm, db, retry, breaker>>

\* NetworkHandler.get (base.py 166-256): the limiter is asked once; when it
\* rejects, RateLimited is returned at once; otherwise the loop issues
\* between one and max_retries + 1 requests and ends in resp
LimiterGet(resp, n) ==
    /\ limiter.answer # "busy"
    /\ LET c == can_proceed(limiter.requests, limiter.now) IN
         limiter' = [limiter EXCEPT
             !.requests = c.requests,
             !.admitted = IF c.ok THEN Append(@, limiter.now) ELSE @,
             !.answer = IF c.ok THEN "admitted" ELSE "rejected",
             !.issued = IF c.ok THEN (IF resp \in Retryable THEN n ELSE 1) ELSE 0,
             !.status = IF c.ok THEN GetResult(resp).status ELSE "rate_limited"]
    /\ UNCHANGED <<orchVars, ai, scraper, mlog, cdetect, faqrun, norm, db, retry, breaker>>

NextLimiter ==
    \/ ClockTick
    \/ \E resp \in Responses : \E n \in {1, max_retries + 1} : LimiterGet(resp, n)

SpecLimiter == InitLimiter /\ [][NextLimiter]_vars

----------------------------------------------------------------------------
(* CircuitBreaker of ErrorHandlerFactory.create_circuit_breaker            *)

\* create_circuit_breaker (factory.py 358), in small
failure_threshold == 2
reset_timeout == 2

\* what the wrapped operation can end in
BreakerOutcomes == {"success", "partial_success", "failure", "raise"}

\* the last n elements of s
LastN(s, n) == IF Len(s) <= n THEN s ELSE SubSeq(s, Len(s) - n + 1, Len(s))

\* CircuitBreaker.__init__ (factory.py 361-364); invoked holds the outcomes
\* of the last failure_threshold operations that were invoked
InitBreaker ==
    /\ breaker = [state |-> "closed", failure_count |-> 0, last_failure_time |-> 0,
                  now |-> 0, invoked |-> <<>>, answer |-> "none"]
    /\ ai = Off
    /\ scraper = Off
    /\ mlog = Off
    /\ cdetect = Off
    /\ faqrun = Off
    /\ norm = Off
    /\ db = Off
    /\ retry = Off
    /\ limiter = Off
    /\ OrchestratorIdle

\* time.time() moves on
BreakerClockTick ==
    /\ breaker.now < MaxTime
    /\ breaker' = [breaker EXCEPT !.now = @ + 1]
    /\ UNCHANGED <<orchVars, ai, scraper, mlog, cdetect, faqrun, norm, db, retry, limiter>>

\* CircuitBreaker.call (factory.py 366-409) on an operation that ends in o
BreakerCall(o) ==
    /\ LET state1 == IF breaker.state = "open"
                        /\ breaker.now - breaker.last_failure_time > reset_timeout
                     THEN "half-open" ELSE breaker.state
           count1 == breaker.failure_count + 1
       IN  IF state1 = "open"
           THEN breaker' = [breaker EXCEPT !.answer = "refused"]
           ELSE IF o = "success"
           THEN breaker' = [breaker EXCEPT
                    !.state = IF state1 = "half-open" THEN "closed" ELSE state1,
                    !.failure_count = IF state1 = "half-open" THEN 0 ELSE @,
                    !.invoked = LastN(Append(@, o), failure_threshold),
                    !.answer = "result"]
           ELSE breaker' = [breaker EXCEPT
                    !.state = IF count1 >= failure_threshold THEN "open" ELSE state1,
                    !.failure_count = count1,
                    !.last_failure_time = breaker.now,
                    !.invoked = LastN(Append(@, o), failure_threshold),
                    !.answer = IF o = "raise" THEN "failure" ELSE "result"]
    /\ UNCHANGED <<orchVars, ai, scraper, mlog, cdetect, faqrun, norm, db, retry, limiter>>

NextBreaker == BreakerClockTick \/ \E o \in BreakerOutcomes : BreakerCall(o)

SpecBreaker == InitBreaker /\ [][NextBreaker]_vars

----------------------------------------------------------------------------
(* Properties                                                              *)

Done == pc = "done"

\* extract_insights returned the record
ReturnedRecord == Done /\ is_success(result)

\* the homepage fetch of the run succeeded
HomepageFetched == is_success(html_result)

\* _run_parallel_extractions has returned its map
Joined == HomepageFetched /\ pc \in {"process", "ai", "competitor", "save", "finalize", "done"}

\* the merge step has completed
Merged == HomepageFetched /\ pc \in {"ai", "competitor", "save", "finalize"}

NonEmptyList(d) == d.kind = "list" /\ d.items # <<>>

Contains(seq, x) == \E i \in 1..Len(seq) : seq[i] = x

\* A URL is malformed when it is empty, names no host, or names a scheme
\* other than http and https
ExplicitScheme(u) == UrlParse(Strip(u)).scheme

DisallowedScheme(u) == ExplicitScheme(u) \notin (AllowedSchemes \cup {<<>>})

NoHost(u) ==
    LET s == Strip(u) IN
    IF ExplicitScheme(u) # <<>> THEN UrlParse(s).netloc = <<>>
    ELSE UrlParse(Str_https \o s).netloc = <<>>

MalformedUrl(u) == u = <<>> \/ DisallowedScheme(u) \/ NoHost(u)

\* the run was started on a URL that is not malformed
WellFormedUrl == ~MalformedUrl(url)

\* C1 (as claimed): once the homepage fetch has succeeded the run returns
\* Success whatever the extractors, the AI validation, the competitor
\* analysis and the persistence end in; a result other than Success is
\* returned only when the URL validation or the homepage fetch failed.
C1_SuccessOnceHomepageFetched ==
    (Done /\ WellFormedUrl) =>
        /\ HomepageFetched => is_success(result)
        /\ ~is_success(result) =>
              \/ ~is_success(validate_url(url))
              \/ html_result.status \in NonSuccess

\* every field extractor of the run ended in Failure
AllExtractorsFailed ==
    /\ TaskNames(cfg) # {}
    /\ \A t \in TaskNames(cfg) : extraction_results[t].status = "failure"

\* C2 (as claimed): homepage fetched and every field extractor failed: the
\* run returns Success with every facet at its default, extraction_success
\* false, and one error string per failed facet.
C2_OneErrorPerFailedFacet ==
    (Done /\ WellFormedUrl /\ HomepageFetched /\ AllExtractorsFailed) =>
        /\ is_success(result)
        /\ insights.product_catalog = ListData(<<>>)
        /\ insights.hero_products = ListData(<<>>)
        /\ insights.brand_context = CtxData(<<>>)
        /\ insights.detected_currency = ""
        /\ insights.extraction_success = FALSE
        /\ Len(insights.errors) >= Cardinality(TaskNames(cfg))

\* the homepage fetch ended in the 404 branch of NetworkHandler.get
Homepage404 == html_result.error_message = "Website not found (404)"

\* C3: a homepage fetch that ends in 404 makes the run return a top-level
\* Failure, and no field extractor is invoked (nor its subtask created) in
\* that run.
C3_NotFoundFailsFast ==
    Homepage404 =>
        /\ Done
        /\ result.status = "failure"
        /\ \A t \in Tasks : ~invoked[t] /\ tstate[t] = "idle"

C3_Witness == Homepage404 /\ Done /\ net.calls = 1

\* C4 (as claimed): for a malformed URL (empty, no host, or a scheme other
\* than http/https) the run returns InvalidInput and NetworkHandler.get is
\* never called.
C4_MalformedUrlNoNetwork ==
    MalformedUrl(url) =>
        /\ net.calls = 0
        /\ Done => result.status = "invalid_input"

\* the record field of subtask t holds the payload d
FieldHolds(t, d) ==
    CASE t = "products"      -> insights.product_catalog = d
      [] t = "hero_products" -> insights.hero_products = d
      [] t = "brand_context" -> insights.brand_context = d
      [] t = "currency"      -> /\ insights.detected_currency = d.currency
                                /\ insights.currency_symbol = d.symbol

\* C5 (as claimed): after the merge, for every subtask whose status is
\* Success or PartialSuccess the payload is in its record field and its
\* warnings are in the record's errors.
C5_MergeWritesSuccessAndPartial ==
    (Merged /\ WellFormedUrl) =>
        \A t \in TaskNames(cfg) :
            extraction_results[t].status \in {"success", "partial_success"} =>
                /\ FieldHolds(t, extraction_results[t].data)
                /\ \A i \in 1..Len(extraction_results[t].warnings) :
                       Contains(insights.errors, extraction_results[t].warnings[i])

\* C6: an exception raised inside a fan-out subtask ends that subtask in a
\* Failure result and touches no sibling: once a subtask has returned, no
\* step of another subtask changes its result, and the map returned by
\* _run_parallel_extractions holds, for every subtask created, the result
\* that subtask itself returned.
C6_ExceptionIsolated ==
    /\ [](Joined =>
            \A t \in TaskNames(cfg) :
                /\ tstate[t] = "done"
                /\ extraction_results[t].status # "absent"
                /\ extraction_results[t] = tresult[t]
                /\ lastRaised[t] => extraction_results[t].status = "failure")
    /\ [][\A t \in Tasks : tstate[t] = "done" =>
              tstate'[t] = "done" /\ tresult'[t] = tresult[t]]_vars

C6_Witness ==
    /\ Joined
    /\ \E t, u \in TaskNames(cfg) :
          /\ lastRaised[t]
          /\ extraction_results[t].status = "failure"
          /\ extraction_results[u].status = "success"

\* C7: in the returned record extraction_success is true exactly when the
\* product catalog, the hero products or the brand name is non-empty, and
\* when it is false the last entry of errors is the final explanatory error.
C7_ExtractionSuccessFlag ==
    ReturnedRecord =>
        /\ insights.extraction_success =
              (\/ NonEmptyList(insights.product_catalog)
               \/ NonEmptyList(insights.hero_products)
               \/ (insights.brand_context.kind = "ctx" /\ insights.brand_context.text # <<>>))
        /\ ~insights.extraction_success =>
              /\ insights.errors # <<>>
              /\ insights.errors[Len(insights.errors)] = FinalError

C7_Witness ==
    /\ ReturnedRecord
    /\ ~insights.extraction_success
    /\ insights.errors[Len(insights.errors)] = FinalError
    /\ \E t \in TaskNames(cfg) : extraction_results[t].status = "partial_success"

\* the neutral marker of comprehensive_validation (ai_validator.py 337-341)
AIDisabledMarker == AIValidationResult(FALSE, 5)

\* C9 (as claimed): without an AI validator the returned record's
\* ai_validation is the neutral disabled marker (validated false, confidence
\* 0.5) and nothing is recorded for the skipped step.
C9_DisabledMarkerWithoutValidator ==
    (ReturnedRecord /\ WellFormedUrl /\ ~cfg.ai_validator) =>
        /\ insights.ai_validation = AIDisabledMarker
        /\ metrics.operations["ai_validation"] = "absent"
        /\ ~Contains(metrics.warnings, "ai_validation")
        /\ ~Contains(metrics.errors, "ai_validation")

\* C10: the persistence step does not interfere with the result.  Whatever
\* the step does (no database configured, save succeeded, save failed or
\* raised), it leaves the record and the pending result as they were and
\* hands over to the finalize step; a failed save adds exactly one warning
\* to the metrics, anything else adds none; no error is recorded.
C10_PersistenceDoesNotInterfere ==
    [][pc = "save" =>
          /\ insights' = insights
          /\ result' = result
          /\ pc' = "finalize"
          /\ metrics'.errors = metrics.errors
          /\ IF metrics'.operations["database_save"] = "false"
             THEN metrics'.warnings = Append(metrics.warnings, "database_save")
             ELSE metrics'.warnings = metrics.warnings]_vars

C10_Witness ==
    /\ ReturnedRecord
    /\ metrics.operations["database_save"] = "false"
    /\ Contains(metrics.warnings, "database_save")
    /\ insights.extraction_success
    /\ NonEmptyList(insights.product_catalog)

----------------------------------------------------------------------------
(* Properties of the per-facet AI validation                               *)

\* the validator reported a confidence for the call
Reported(c) ==
    /\ c.ai_available
    /\ ~c.raises
    /\ c.has_text
    /\ c.facet = "faqs" => Truthy(c.current)

\* C8 (as claimed): a facet whose reported confidence is >= 0.7 is never
\* overwritten; a facet whose reported confidence is below 0.7 is overwritten
\* when a better value is available.
C8_NeverOverwritesAtThreshold ==
    (ai.phase = "returned" /\ Reported(ai)) =>
        /\ ai.confidence >= ConfidenceThreshold => ai.returned = ai.current
        /\ (ai.confidence < ConfidenceThreshold /\ Truthy(ai.improved)) =>
              ai.returned = ai.improved

\* C8 (amended): a facet that the validator reports valid with confidence
\* >= 0.7 is never overwritten; a facet reported invalid, or with confidence
\* below 0.7, is overwritten when a better value is available.
C8_OverwritesOnlyLowConfidenceOrInvalid ==
    (ai.phase = "returned" /\ Reported(ai)) =>
        /\ (ai.is_valid /\ ai.confidence >= ConfidenceThreshold) =>
              ai.returned = ai.current
        /\ ((~ai.is_valid \/ ai.confidence < ConfidenceThreshold) /\ Truthy(ai.improved)) =>
              ai.returned = ai.improved

C8_Witness ==
    /\ ai.phase = "returned"
    /\ Reported(ai)
    /\ ai.is_valid
    /\ ai.confidence = ConfidenceThreshold
    /\ Truthy(ai.improved)
    /\ ai.improved # ai.current
    /\ ai.returned = ai.current

----------------------------------------------------------------------------
(* Properties of the scraper's fan-out                                     *)

\* the subtasks of the scraper's fan-out that wrote into insights.errors
ScraperErrorWriters ==
    { i \in 1..Len(ScraperTasks) :
        Contains(scraper.insights.errors, ScraperErrorOf(ScraperTasks[i])) }

----------------------------------------------------------------------------
(* Properties of the homepage fetch and the retry handlers                 *)

\* C12 (as claimed): the homepage is requested by exactly one
\* NetworkHandler.get call of the run, that call has completed with Success
\* before any fan-out subtask exists, and no subtask requests the homepage
\* again.
C12_SingleHomepageRequest ==
    /\ net.calls <= 1
    /\ (\E t \in Tasks : tstate[t] # "idle") =>
          /\ net.calls = 1
          /\ pc \notin {"start", "fetch", "get"}
          /\ HomepageFetched

\* C13: NetworkHandler.get issues at most max_retries + 1 requests; it
\* re-issues the request only after a 5xx response, a timeout or a connection
\* error, after waiting backoff_factor x 2^attempt; a 404, 403 or 429 response
\* ends the call at once, as InvalidInput, Failure and RateLimited.
C13_RetryPolicy ==
    /\ [](/\ pc = "get" => net.attempt <= max_retries
          /\ (pc = "get" /\ net.attempt > 0) =>
                /\ net.last \in {"5xx", "timeout", "connection_error"}
                /\ net.wait = 2 ^ (net.attempt - 1)
          /\ net.last \in {"404", "403", "429"} =>
                /\ pc = "done"
                /\ html_result.status =
                      (CASE net.last = "404" -> "invalid_input"
                         [] net.last = "403" -> "failure"
                         [] net.last = "429" -> "rate_limited"))
    /\ [][(pc = "get" /\ net.attempt = max_retries) => pc' # "get"]_vars

C13_Witness ==
    /\ pc = "done"
    /\ net.last = "5xx"
    /\ html_result.error_message = "Server error"

\* C14 (as claimed): an InvalidInput result of an operation wrapped by the
\* retry handler is terminal.  On an empty homepage body the hero-product and
\* the brand-context extractor return nothing but InvalidInput, so their
\* retry handlers never reach a second iteration.
C14_InvalidInputNotRetried ==
    (WellFormedUrl /\ HomepageFetched /\ html_result.data.text = <<>>) =>
        \A t \in {"hero_products", "brand_context"} : attempt[t] = 0

----------------------------------------------------------------------------
(* Properties of ExtractionMetrics                                         *)

\* C15 (as claimed): after N record_operation calls, repeated names
\* included, get_summary reports total_operations = N and success_rate =
\* (calls with success) / N, and success_rate = 0 when N = 0.
C15_SummaryCountsCalls ==
    mlog.phase = "calls" =>
        LET summary == get_summary(mlog.metrics) IN
          /\ summary.total_operations = mlog.n
          /\ IF mlog.n = 0 THEN summary.success_rate.num = 0
             ELSE summary.success_rate.num * mlog.n = mlog.ok * summary.success_rate.den

----------------------------------------------------------------------------
(* Properties of the currency detection                                    *)

\* the currency that domain_mappings gives for the country-code suffix the
\* host of u ends with ("none" when it ends with none)
CountryCodeCurrency(u) ==
    LET ends == { i \in 1..Len(domain_mappings) : EndsWith(Lower(u), domain_mappings[i].suffix) }
    IN  IF ends = {} THEN "none"
        ELSE domain_mappings[CHOOSE i \in ends : TRUE].code

\* C17 (as claimed): when the country-code domain of the URL is mapped to a
\* currency X and the product prices carry the symbol of another currency,
\* detect_and_convert_product_prices returns X.
C17_DomainWinsOverPrices ==
    (/\ cdetect.phase = "returned"
     /\ CountryCodeCurrency(cdetect.url) # "none"
     /\ cdetect.prices.kind = "symbol"
     /\ cdetect.prices.cur # CountryCodeCurrency(cdetect.url)) =>
        cdetect.detected.currency = CountryCodeCurrency(cdetect.url)

\* a step was attempted / yielded a currency other than the default
Attempted(st) == cdetect.yields[st] # NotAttempted
YieldedCurrency(st) ==
    Attempted(st) /\ cdetect.yields[st] \notin {NothingFound, DefaultCurrency}

\* C18 (as claimed): the detection is a cascade: a step is attempted only if
\* no earlier step yielded a currency other than the default USD/$, and when
\* a step yields such a currency no later step is attempted and that
\* currency (a code of currency_symbols with its symbol) is the result.
C18_Cascade ==
    cdetect.phase \in {"run", "returned"} =>
        \A i \in 1..Len(CurrencySteps) :
            /\ Attempted(CurrencySteps[i]) =>
                  \A j \in 1..(i - 1) : ~YieldedCurrency(CurrencySteps[j])
            /\ (YieldedCurrency(CurrencySteps[i]) /\ cdetect.phase = "returned") =>
                  /\ cdetect.detected = cdetect.yields[CurrencySteps[i]]
                  /\ cdetect.detected.currency \in CurrencyCodes
                  /\ cdetect.detected.symbol = get_symbol_for_code(cdetect.detected.currency)

----------------------------------------------------------------------------
(* Properties of the FAQ list                                              *)

NoCaseDuplicates(faqs) ==
    \A i, j \in 1..Len(faqs) :
        i # j => Lower(faqs[i].question) # Lower(faqs[j].question)

\* C19 (as claimed): the FAQ list of the record never holds two entries whose
\* questions are equal ignoring case and never more than 15 entries,
\* whatever was scraped and whatever the AI validation gives.
C19_FaqsUniqueAndCapped ==
    faqrun.phase = "done" =>
        /\ NoCaseDuplicates(faqrun.insights_faqs)
        /\ Len(faqrun.insights_faqs) <= FaqLimit

----------------------------------------------------------------------------
(* Properties of the URL normalization                                     *)

HasHttpScheme(u) == StartsWith(u, Str_http) \/ StartsWith(u, Str_https)

\* C20 (as claimed): each of the three normalizers gives a URL that starts
\* with https:// for an input without scheme, and applied to its own result
\* gives that result again, for every input string.
C20_NormalizeIdempotent ==
    norm.phase = "twice" =>
        /\ norm.twice.defined /\ norm.twice.url = norm.once.url
        /\ ~HasHttpScheme(Strip(norm.u)) => StartsWith(norm.once.url, Str_https)

----------------------------------------------------------------------------
(* Properties of OperationResult                                           *)

\* the results the run holds: of the homepage fetch, of each retry handler,
\* of the fan-out's map, and the one returned
ResultsProduced ==
    { r \in {html_result, result} \cup { tresult[t] : t \in Tasks }
            \cup { extraction_results[t] : t \in Tasks } : r # NoResult }

\* C21 (as claimed): every OperationResult of the network handler, the
\* extractors, the retry handler and the orchestrator has data exactly when
\* its status is Success or PartialSuccess, and an error message exactly when
\* its status is not Success.
C21_DataAndErrorMatchStatus ==
    WellFormedUrl =>
        \A r \in ResultsProduced :
            /\ (r.data.kind # "none") <=> (r.status \in {"success", "partial_success"})
            /\ (r.error_message # "") <=> (r.status # "success")

----------------------------------------------------------------------------
(* Properties of the persistence                                           *)

\* the items of the child rows of a table that refer to the brand row of u
RowsOf(rows, u) ==
    LET ids  == { r.id : r \in { b \in db.brand_insights : b.store_url = u } }
        mine == SelectSeq(rows, LAMBDA r : r.brand_insights_id \in ids)
    IN  [i \in 1..Len(mine) |-> mine[i].item]

C28_FailedSaveChangesNothing ==
    (db.call.step = "idle" /\ db.returned = "None") => Tables(db) = db.before

----------------------------------------------------------------------------
(* Properties of the record of extract_all_insights                        *)

\* the record holds no product, no hero product and no brand name
ScraperDegraded(ins) ==
    /\ ins.product_catalog \in {"default", "empty"}
    /\ ins.hero_products \in {"default", "empty"}
    /\ ins.brand_context = "default"

\* C23 (as claimed): a degraded record returned by extract_all_insights has
\* extraction_success = false and a non-empty errors list.
C23_DegradedRecordIsFlagged ==
    (scraper.phase = "returned" /\ ScraperDegraded(scraper.insights)) =>
        /\ scraper.insights.extraction_success = FALSE
        /\ scraper.insights.errors # <<>>

\* C24 (as claimed): the endpoint answers 401 when the homepage is not
\* found, forbidden, unreachable or timed out, 500 when the target answers
\* 5xx, and 200 with the record when the target is reachable.
C24_EndpointStatus ==
    scraper.http # NoHttp =>
        /\ scraper.resp \in {"404", "403", "connection_error", "connect_timeout",
                             "read_timeout"} => scraper.http.status = 401
        /\ scraper.resp = "5xx" => scraper.http.status = 500
        /\ scraper.resp = "200" => scraper.http.status = 200

----------------------------------------------------------------------------
(* Properties of the retry handler                                         *)

Succeeded(o) == ~o.raise /\ (is_success(o.res) \/ is_partial_success(o.res))

RetryBounded ==
    /\ Len(retry.outcomes) <= max_retries + 1
    /\ \A i \in 1..Len(retry.outcomes) :
           Succeeded(retry.outcomes[i]) =>
               /\ i = Len(retry.outcomes)
               /\ retry.phase = "returned"
               /\ retry.result = retry.outcomes[i].res
    /\ retry.phase = "returned" =>
           /\ Len(retry.waits) = Len(retry.outcomes) - 1
           /\ \A i \in 1..Len(retry.waits) : retry.waits[i] = 2 ^ (i - 1)
           /\ (\A i \in 1..Len(retry.outcomes) : ~Succeeded(retry.outcomes[i])) =>
                  /\ retry.result.status = "failure"
                  /\ Len(retry.outcomes) = max_retries + 1

\* C25: the retry handler returns after at most max_retries + 1 invocations
\* of the operation: the first Success or PartialSuccess result is returned
\* unchanged and nothing is invoked after it, the wait after attempt k is
\* backoff_factor x 2^k, and when every attempt ended in a non-success result
\* or an exception the handler returns Failure.
C25_RetryTerminates == []RetryBounded /\ <>(retry.phase = "returned")

C25_Witness ==
    /\ retry.phase = "returned"
    /\ Len(retry.outcomes) = max_retries + 1
    /\ retry.outcomes[1].raise
    /\ retry.outcomes[2].res.status = "timeout"
    /\ retry.result.status = "failure"
    /\ retry.waits # <<>>

----------------------------------------------------------------------------
(* Properties of the rate limiter                                          *)

\* the calls admitted in the time_window seconds that end at time t
AdmittedWithin(t) ==
    Cardinality({ i \in 1..Len(limiter.admitted) :
                    limiter.admitted[i] <= t /\ t - limiter.admitted[i] < time_window })

\* C26: in any time_window seconds the limiter admits at most max_requests
\* calls; a rejected call leaves the admitted list as it is; and a rejected
\* NetworkHandler.get returns RateLimited with no HTTP request issued.
C26_RateLimiter ==
    /\ [](\A t \in 0..MaxTime : AdmittedWithin(t) <= max_requests)
    /\ [][(limiter'.now = limiter.now /\ limiter'.answer = "rejected") =>
             /\ limiter'.admitted = limiter.admitted
             /\ limiter'.requests =
                    SelectSeq(limiter.requests, LAMBDA t : limiter'.now - t < time_window)
             /\ limiter'.issued = 0
             /\ limiter'.status = "rate_limited"]_vars

C26_Witness ==
    /\ limiter.answer = "rejected"
    /\ limiter.status = "rate_limited"
    /\ Len(limiter.admitted) > max_requests
    /\ Len(limiter.requests) = max_requests

----------------------------------------------------------------------------
(* Properties of the record saved and the record returned                  *)

\* C27 (as claimed): the record handed to the persistence service has the
\* extraction_success and the errors of the record returned.  The record is
\* handed over at the save step and is not changed by it, so when the run
\* is about to finalize the record is as the persistence service received
\* it; the step that returns the record must then leave both fields alone.
C27_SavedRecordIsReturnedRecord ==
    [][(/\ pc = "finalize"
        /\ cfg.database_service
        /\ WellFormedUrl
        /\ pc' = "done"
        /\ is_success(result')) =>
           /\ insights'.extraction_success = insights.extraction_success
           /\ insights'.errors = insights.errors]_vars

----------------------------------------------------------------------------
(* Properties of the currency pairs                                        *)

\* the pair is a code of currency_symbols with the symbol of that code
InCurrencyTable(p) ==
    /\ p.currency \in CurrencyCodes
    /\ p.symbol = get_symbol_for_code(p.currency)

\* C29 (as claimed): the pair detect_currency_from_products returns and the
\* pair detect_and_convert_product_prices returns are a code of
\* currency_symbols followed by the symbol of that code.
C29_PairsInCurrencyTable ==
    /\ Attempted("products") => InCurrencyTable(cdetect.yields["products"])
    /\ cdetect.phase = "returned" => InCurrencyTable(cdetect.detected)

----------------------------------------------------------------------------
(* Properties of the circuit breaker                                       *)

\* C30 (as claimed): a call is refused only while the breaker is open and
\* reset_timeout has not passed since the last failure, and the breaker is
\* open only if the last failure_threshold operations invoked all ended in
\* non-success.
C30_CircuitBreaker ==
    /\ [][(breaker'.now = breaker.now /\ breaker'.answer = "refused") =>
             /\ breaker.state = "open"
             /\ breaker.now - breaker.last_failure_time <= reset_timeout
             /\ breaker'.invoked = breaker.invoked]_vars
    /\ [](breaker.state = "open" =>
             /\ Len(breaker.invoked) = failure_threshold
             /\ \A i \in 1..Len(breaker.invoked) : breaker.invoked[i] # "success")

====
